---- MODULE Spec2Model ----
(***************************************************************************)
(* image-gen-mcp: the orchestration core of the image generation broker.   *)
(*                                                                         *)
(* The module holds several state machines over one set of variables:      *)
(*   SpecPoll   the submit-then-poll loops of the BFL, Fal and Replicate   *)
(*              providers (pollForResult / pollPrediction);                *)
(*   SpecRetry  the retry executor (executeWithRetry) around a unit of     *)
(*              work;                                                      *)
(*   SpecRate   the sliding-window rate limiter at the entry of generate;  *)
(*   SpecGen    a provider's generate pipeline: validation, rate limit,    *)
(*              cache lookup, retried backend attempt, cache store;        *)
(*   SpecCache  the result cache filled up to its capacity;                *)
(*   SpecConc   several generate calls of one provider in flight at once,  *)
(*              interleaved at their awaits;                               *)
(*   SpecHttp   the classification of a failed HTTP response;              *)
(*   SpecReg    the provider registry of Config;                           *)
(*   SpecOrch   the image.generate tool handler: provider resolution,      *)
(*              dimension checks, the call and the fallback;               *)
(*   SpecSel    the prompt classifier and selectProvider.                  *)
(* Each specification leaves the variables of the others at their initial  *)
(* values.                                                                 *)
(***************************************************************************)
EXTENDS Integers, Sequences, FiniteSets, TLC

VARIABLES
    \* ---- poll loop (SpecPoll)
    pProv,      \* provider whose poll loop runs: "BFL", "FAL", "REPLICATE"
    pScript,    \* what the backend will answer: see PollScripts
    pPc,        \* "sleep", "check" or "done"
    pI,         \* loop index (i / attempts in the source)
    pChecks,    \* status checks answered so far
    pElapsed,   \* ms since the attempt's createTimeout (read by BFL's signal)
    pLast,      \* last answer received, NoAnswer before the first
    pOut        \* outcome of the loop

VARIABLES
    \* ---- retry executor (SpecRetry)
    rBudget,    \* maxAttempts handed to executeWithRetry
    rWork,      \* what the unit of work does on its 1st, 2nd, ... invocation
    rCalls,     \* invocations of the unit of work so far
    rPc,        \* "call", "sleep" or "done"
    rOut        \* what executeWithRetry returned or threw

VARIABLES
    \* ---- provider state shared by every generate call (SpecRate, SpecGen)
    now,            \* Date.now(), in seconds
    requestTimes,   \* per provider: timestamps of the rate-limit window
    admitLog,       \* per provider: times, still inside the window, at which a
                    \* generate call went on past the rate-limit check
    lastAdmit,      \* how the most recent generate call fared at its entry
    genCalls        \* generate calls made so far

VARIABLES
    \* ---- sequential generate requests against one provider (SpecGen)
    gProv,          \* the provider instance
    gKeyValid,      \* whether its API key from the environment is usable
    cache,          \* its result cache: key -> entry
    gReq,           \* the request in flight
    gDone,          \* finished requests, oldest first
    gNet            \* per key: generation requests sent to the backend

VARIABLES
    \* ---- one call of selectProvider (SpecSel)
    sPrompt,        \* the prompt, a sequence of characters
    sAvailable,     \* availableProviders
    sExplicit,      \* explicitProvider ("" when not passed)
    sSelected,      \* the returned name
    sAnalysis,      \* what analyzePrompt returned inside the call
    sPc

VARIABLES
    \* ---- one image.generate request through the tool handler (SpecOrch)
    oConfigured,    \* names of the providers whose isConfigured() is true
    oDisableFallback, \* process.env.DISABLE_FALLBACK === 'true'
    oDefaultEnv,    \* process.env.DEFAULT_PROVIDER ("" when unset)
    oReq,           \* the parsed arguments
    oPc,
    oHead,          \* the provider the handler resolved
    oFallback,      \* the provider of the fallback call
    oHeadOutcome,   \* how the head provider's generate ended
    oCalls,         \* providers whose generate was called, in order
    oOut            \* what the request returned or threw

VARIABLES
    \* ---- generate calls in flight at the same time on one provider (SpecConc)
    cReq            \* per call: where it stands and what it returned

VARIABLES
    \* ---- one failed HTTP response of a backend (SpecHttp)
    hAdapter,       \* the provider whose generate received it
    hStatus,        \* the HTTP status
    hRetryable,     \* isRetryable of the ProviderError thrown
    hPc

VARIABLES
    \* ---- the provider registry of Config (SpecReg)
    regProviders,   \* Config.providers: per name the instance held, 0 for none
    regBuilt,       \* per name: how often its constructor ran
    regLast,        \* the last getProvider call and what it returned
    regDefault,     \* what the last getDefaultProvider call returned
    \* ---- one request through handler and retry executor (SpecTerm)
    tPhase,         \* "idle", "attempt" or "backoff" of the running executor
    tAttempt,       \* number of the executor's current attempt
    tInv,           \* per provider: backend invocations made for the request
    \* ---- timeout timers of one provider call (SpecTimer)
    kCall,          \* the call: provider and operation
    kPc,            \* "idle", "exchange" (a request is in flight) or "done"
    kN,             \* number of the exchange under way
    kLive,          \* 1 while the timer of the exchange under way is pending
    kStale,         \* pending timers of exchanges that have ended
    \* ---- one image.edit request through the handler (SpecEdit)
    eConfigured,    \* the providers whose isConfigured() is true
    eDefaultEnv,    \* DEFAULT_PROVIDER
    eDisable,       \* DISABLE_FALLBACK === 'true'
    eReq,           \* the request: provider, prompt, base image
    ePc,            \* "call", "aspect", "invoke", "done" or "failed"
    eResolved,      \* the provider the handler resolved first, "" for none
    eProvider,      \* the handler's provider variable
    eInvoked        \* the provider whose edit was called, "" for none

pollVars == <<pProv, pScript, pPc, pI, pChecks, pElapsed, pLast, pOut>>
retryVars == <<rBudget, rWork, rCalls, rPc, rOut>>

rateVars == <<now, requestTimes, admitLog, lastAdmit, genCalls>>

genVars == <<gProv, gKeyValid, cache, gReq, gDone, gNet>>

selVars == <<sPrompt, sAvailable, sExplicit, sSelected, sAnalysis, sPc>>

orchVars == <<oConfigured, oDisableFallback, oDefaultEnv, oReq, oPc, oHead,
              oFallback, oHeadOutcome, oCalls, oOut>>

concVars == <<cReq>>

httpVars == <<hAdapter, hStatus, hRetryable, hPc>>

regVars == <<regProviders, regBuilt, regLast, regDefault>>

termVars == <<tPhase, tAttempt, tInv>>

timerVars == <<kCall, kPc, kN, kLive, kStale>>

editVars == <<eConfigured, eDefaultEnv, eDisable, eReq, ePc, eResolved,
              eProvider, eInvoked>>

vars == <<pollVars, retryVars, rateVars, genVars, selVars, orchVars, concVars,
          httpVars, regVars, termVars, timerVars, editVars>>

Min(a, b) == IF a < b THEN a ELSE b

(***************************************************************************)
(* Async completion: the poll loops                                        *)
(***************************************************************************)

PollProviders == {"BFL", "FAL", "REPLICATE"}

\* maxAttempts of each loop
BFLMaxAttempts == 30
FalMaxAttempts == 30
ReplicateMaxAttempts == 60

maxAttempts(p) ==
    CASE p = "BFL" -> BFLMaxAttempts
      [] p = "FAL" -> FalMaxAttempts
      [] p = "REPLICATE" -> ReplicateMaxAttempts

\* createTimeout(90000) of BFLProvider.generate: the signal handed to every
\* status request aborts this many ms after the attempt began
BFLTimeoutMs == 90000
BFLInitialDelay == 1000
BFLMaxDelay == 10000
\* Math.random() * 500, as whole ms: 0 .. 499
BFLJitterBound == 500

\* createTimeout(60000) of FalProvider.generate; the delays of its loop for
\* a model whose name does not include 'fast'
FalTimeoutMs == 60000
FalBaseDelay == 500
FalMaxDelay == 5000
FalJitterBound == 200

\* the deadline of the attempt a poll loop runs in (Replicate's loop has
\* none: each of its status requests carries its own 10 s signal)
Deadline(p) == IF p = "BFL" THEN BFLTimeoutMs ELSE FalTimeoutMs

RECURSIVE Pow(_, _)
Pow(b, e) == IF e = 0 THEN 1 ELSE b * Pow(b, e - 1)

\* base * 1.5^i has reached cap (at index i or before; the product grows
\* with i, and is only computed up to the first index that reaches cap)
RECURSIVE ReachedCap(_, _, _)
ReachedCap(base, cap, i) ==
    IF base >= cap THEN TRUE
    ELSE IF i = 0 THEN FALSE
    ELSE ReachedCap(base, cap, i - 1) \/ base * Pow(3, i) >= cap * Pow(2, i)

\* a schedule that takes the cap only one index late
BackoffDelayLateCap(base, cap, i) ==
    IF i > 0 /\ ReachedCap(base, cap, i - 1) THEN cap
    ELSE (base * Pow(3, i)) \div Pow(2, i)

\* num / den is base * 1.5^k with `left` factors of 1.5 still to apply; the
\* product is followed only until it reaches cap
RECURSIVE BackoffFrom(_, _, _, _)
BackoffFrom(num, den, cap, left) ==
    IF num >= cap * den THEN cap
    ELSE IF left = 0 THEN num \div den
    ELSE BackoffFrom(num * 3, den * 2, cap, left - 1)

\* Math.min(initialDelay * Math.pow(1.5, i), maxDelay) as the whole ms the
\* timer waits
BackoffDelay(base, cap, i) == BackoffFrom(base, 1, cap, i)

\* An answer to one status request.  ok: the HTTP exchange succeeded
\* (statusCode 200 / response.ok); st: the job status in the body;
\* images: the body carries the images (Fal's status.images); transient: the
\* backend marks the failure as transient (no adapter reads this).
Answers ==
    [ok : BOOLEAN, st : {"Pending", "Ready", "Failed"},
     images : BOOLEAN, transient : BOOLEAN]

NoAnswer == [ok |-> FALSE, st |-> "None", images |-> FALSE, transient |-> FALSE]

PendingAnswer ==
    [ok |-> TRUE, st |-> "Pending", images |-> FALSE, transient |-> FALSE]

\* The backend's behaviour for one job: status checks 1 .. at-1 answer
\* Pending, check number `at` and every later one answer `ans`.
\* extract: Fal's processResult (image download) succeeds.
TerminalAnswers ==
    {a \in Answers : (a.images => a.st = "Ready") /\ (a.transient => a.st = "Failed")}

\* Fal's processResult on the final answer: "ok", "empty" (no image in the
\* list) or "download" (an image URL cannot be fetched).
PollScripts(p) ==
    [at : 1 .. maxAttempts(p), ans : TerminalAnswers,
     extract : IF p = "FAL" THEN {"ok", "empty", "download"} ELSE {"ok"}]

AnswerAt(script, n) == IF n < script.at THEN PendingAnswer ELSE script.ans

NoOutcome == [kind |-> "none", why |-> "", retryable |-> FALSE]
Result == [kind |-> "result", why |-> "ready", retryable |-> FALSE]
Failure(why, retryable) == [kind |-> "error", why |-> why, retryable |-> retryable]

IdlePoll ==
    /\ pProv = "BFL"
    /\ pScript = [at |-> 1, ans |-> PendingAnswer, extract |-> "ok"]
    /\ pPc = "done"
    /\ pI = 0
    /\ pChecks = 0
    /\ pElapsed = 0
    /\ pLast = NoAnswer
    /\ pOut = NoOutcome

IdleRetry ==
    /\ rBudget = 1
    /\ rWork = <<"ok">>
    /\ rCalls = 0
    /\ rPc = "done"
    /\ rOut = [kind |-> "none", retryable |-> FALSE, at |-> 0, exhausted |-> FALSE]

GenProviders == {"BFL", "FAL"}

NoAdmit == [prov |-> "", kind |-> "none", before |-> 0, rejectedBefore |-> FALSE]

IdleRate ==
    /\ now = 0
    /\ requestTimes = [p \in GenProviders |-> <<>>]
    /\ admitLog = [p \in GenProviders |-> <<>>]
    /\ lastAdmit = NoAdmit
    /\ genCalls = 0

\* generateCacheKey values: requests with equal normalized fields share one
GenKeys == {"k1", "k2", "blank"}

\* validatePrompt accepts the prompt of the request: "blank" stands for the
\* requests whose prompt is empty or whitespace
PromptValid(key) == key # "blank"

NoEntry == [val |-> 0, at |-> 0]
NoReq == [pc |-> "idle", key |-> "", attempt |-> 0, start |-> 0]

IdleGen ==
    /\ gProv = ""
    /\ gKeyValid = FALSE
    /\ cache = [k \in GenKeys |-> NoEntry]
    /\ gReq = NoReq
    /\ gDone = <<>>
    /\ gNet = [k \in GenKeys |-> 0]

IdleSel ==
    /\ sPrompt = <<>>
    /\ sAvailable = <<>>
    /\ sExplicit = ""
    /\ sSelected = ""
    /\ sAnalysis = 0
    /\ sPc = "idle"

NoRequest == [provider |-> "", prompt |-> <<>>, size |-> 0]
NoResponse == [kind |-> "none", prov |-> "", retryable |-> FALSE]

IdleOrch ==
    /\ oConfigured = {}
    /\ oDisableFallback = FALSE
    /\ oDefaultEnv = ""
    /\ oReq = NoRequest
    /\ oPc = "idle"
    /\ oHead = ""
    /\ oFallback = ""
    /\ oHeadOutcome = ""
    /\ oCalls = <<>>
    /\ oOut = NoResponse

IdleConc == cReq = <<>>

IdleReg ==
    regProviders = <<>> /\ regBuilt = <<>> /\ regLast = <<>> /\ regDefault = <<>>

IdleTerm == tPhase = "idle" /\ tAttempt = 0 /\ tInv = <<>>

IdleTimer == kCall = <<>> /\ kPc = "idle" /\ kN = 0 /\ kLive = 0 /\ kStale = 0

IdleEdit ==
    /\ eConfigured = {} /\ eDefaultEnv = "" /\ eDisable = FALSE /\ eReq = <<>>
    /\ ePc = "idle" /\ eResolved = "" /\ eProvider = "" /\ eInvoked = ""

IdleHttp == hAdapter = "" /\ hStatus = 0 /\ hRetryable = FALSE /\ hPc = "idle"

InitPoll ==
    /\ IdleRetry /\ IdleRate /\ IdleGen /\ IdleSel /\ IdleOrch /\ IdleConc /\ IdleHttp /\ IdleReg /\ IdleTerm /\ IdleTimer /\ IdleEdit
    /\ pProv \in PollProviders
    /\ pScript \in PollScripts(pProv)
    /\ pPc = IF pProv = "BFL" THEN "sleep" ELSE "check"
    /\ pI = 0
    /\ pChecks = 0
    /\ pElapsed = 0
    /\ pLast = NoAnswer
    /\ pOut = NoOutcome

\* ---- BFLProvider.pollForResult

\* one iteration's sleep: await new Promise(resolve => setTimeout(resolve, delay))
BFLPollSleep ==
    /\ pProv = "BFL" /\ pPc = "sleep"
    /\ \E jitter \in {0, BFLJitterBound - 1} :
          pElapsed' = pElapsed + BackoffDelay(BFLInitialDelay, BFLMaxDelay, pI) + jitter
    /\ pPc' = "check"
    /\ UNCHANGED <<pProv, pScript, pI, pChecks, pLast, pOut>>

\* The status request with the attempt's signal, and the branches on its
\* answer.  A signal that has already aborted rejects the request; the
\* rejection is no ProviderError, so generate's catch wraps it and marks it
\* retryable only if the library's message mentions a timeout.
BFLPollCheck ==
    /\ pProv = "BFL" /\ pPc = "check"
    /\ IF pElapsed >= BFLTimeoutMs
       THEN /\ \E r \in BOOLEAN : pOut' = Failure("abort", r)
            /\ pPc' = "done"
            /\ UNCHANGED <<pI, pChecks, pLast>>
       ELSE LET a == AnswerAt(pScript, pChecks + 1) IN
            /\ pChecks' = pChecks + 1
            /\ pLast' = a
            /\ IF a.ok /\ a.st = "Ready"
               THEN pOut' = Result /\ pPc' = "done" /\ pI' = pI
               ELSE IF a.st = "Failed"
               THEN pOut' = Failure("failed", FALSE) /\ pPc' = "done" /\ pI' = pI
               ELSE /\ pI' = pI + 1
                    /\ IF pI + 1 < BFLMaxAttempts
                       THEN pPc' = "sleep" /\ pOut' = pOut
                       ELSE pPc' = "done" /\ pOut' = Failure("timeout", TRUE)
    /\ UNCHANGED <<pProv, pScript, pElapsed>>

\* ---- FalProvider.pollForResult (the signal is not passed to fetch)

FalExtract(script) ==
    CASE script.extract = "ok" -> Result
      [] script.extract = "empty" -> Failure("extract", FALSE)
      [] script.extract = "download" -> Failure("extract", TRUE)

FalPollCheck ==
    /\ pProv = "FAL" /\ pPc = "check"
    /\ LET a == AnswerAt(pScript, pChecks + 1) IN
       /\ pChecks' = pChecks + 1
       /\ pLast' = a
       /\ IF ~a.ok
          THEN pOut' = Failure("http", TRUE) /\ pPc' = "done"
          ELSE IF a.st = "Ready" /\ a.images
          THEN pOut' = FalExtract(pScript) /\ pPc' = "done"
          ELSE IF a.st = "Failed"
          THEN pOut' = Failure("failed", TRUE) /\ pPc' = "done"
          ELSE pOut' = pOut /\ pPc' = "sleep"
    /\ UNCHANGED <<pProv, pScript, pI, pElapsed>>

\* the sleep at the end of an iteration, then attempts++ and the loop test
FalPollSleep ==
    /\ pProv = "FAL" /\ pPc = "sleep"
    /\ \E jitter \in {0, FalJitterBound - 1} :
          pElapsed' = pElapsed + BackoffDelay(FalBaseDelay, FalMaxDelay, pI) + jitter
    /\ pI' = pI + 1
    /\ IF pI + 1 < FalMaxAttempts
       THEN pPc' = "check" /\ pOut' = pOut
       ELSE pPc' = "done" /\ pOut' = Failure("timeout", TRUE)
    /\ UNCHANGED <<pProv, pScript, pChecks, pLast>>

\* ---- ReplicateProvider.pollPrediction, with generate's test of the
\* returned status

ReplicatePollCheck ==
    /\ pProv = "REPLICATE" /\ pPc = "check"
    /\ LET a == AnswerAt(pScript, pChecks + 1) IN
       /\ pChecks' = pChecks + 1
       /\ pLast' = a
       /\ IF ~a.ok
          THEN pOut' = Failure("http", TRUE) /\ pPc' = "done"
          ELSE IF a.st = "Ready"
          THEN pOut' = Result /\ pPc' = "done"
          ELSE IF a.st = "Failed"
          THEN pOut' = Failure("failed", FALSE) /\ pPc' = "done"
          ELSE pOut' = pOut /\ pPc' = "sleep"
    /\ UNCHANGED <<pProv, pScript, pI, pElapsed>>

ReplicatePollSleep ==
    /\ pProv = "REPLICATE" /\ pPc = "sleep"
    /\ pI' = pI + 1
    /\ IF pI + 1 < ReplicateMaxAttempts
       THEN pPc' = "check" /\ pOut' = pOut
       ELSE pPc' = "done" /\ pOut' = Failure("timeout", TRUE)
    /\ UNCHANGED <<pProv, pScript, pChecks, pElapsed, pLast>>

NextPoll ==
    \/ BFLPollSleep /\ UNCHANGED <<retryVars, rateVars, genVars, selVars, orchVars, concVars, httpVars, regVars, termVars, timerVars, editVars>>
    \/ BFLPollCheck /\ UNCHANGED <<retryVars, rateVars, genVars, selVars, orchVars, concVars, httpVars, regVars, termVars, timerVars, editVars>>
    \/ FalPollCheck /\ UNCHANGED <<retryVars, rateVars, genVars, selVars, orchVars, concVars, httpVars, regVars, termVars, timerVars, editVars>>
    \/ FalPollSleep /\ UNCHANGED <<retryVars, rateVars, genVars, selVars, orchVars, concVars, httpVars, regVars, termVars, timerVars, editVars>>
    \/ ReplicatePollCheck /\ UNCHANGED <<retryVars, rateVars, genVars, selVars, orchVars, concVars, httpVars, regVars, termVars, timerVars, editVars>>
    \/ ReplicatePollSleep /\ UNCHANGED <<retryVars, rateVars, genVars, selVars, orchVars, concVars, httpVars, regVars, termVars, timerVars, editVars>>

SpecPoll == InitPoll /\ [][NextPoll]_vars

ReadyAnswer == [ok |-> TRUE, st |-> "Ready", images |-> TRUE, transient |-> FALSE]

\* C7: a job whose status sequence is k Pending answers followed by Ready,
\* with k+1 within the poll budget, ends with exactly k+1 status checks and
\* the Ready result (the result extraction succeeding).
C7_PollSuccess ==
    (pPc = "done" /\ pScript.ans = ReadyAnswer /\ pScript.extract = "ok")
        => (pOut = Result /\ pChecks = pScript.at)

\* C8: when a status check reports Failed, the loop ends with a backend error
\* at that very check, and the error is retryable only if the backend
\* signalled a transient failure.
C8_PollFailed ==
    (pPc = "done" /\ pLast.ok /\ pLast.st = "Failed")
        => /\ pOut.kind = "error"
           /\ pChecks = pScript.at
           /\ (pOut.retryable => pLast.transient)

\* C9: a job whose status never becomes Ready or Failed ends after exactly
\* maxAttempts status checks (30 for BFL and Fal, 60 for Replicate) with a
\* retryable timeout error, and no loop ever checks more often than that.
C9_PollBudget ==
    /\ pChecks <= maxAttempts(pProv)
    /\ (pPc = "done" /\ pScript.ans = PendingAnswer)
          => (pChecks = maxAttempts(pProv) /\ pOut = Failure("timeout", TRUE))

\* C17: when the deadline of the request expires while a job is polled,
\* during a sleep or during a status check, the loop has ended with a
\* timeout error: it neither sleeps on nor checks the status again.
C17_DeadlineCancelsPoll ==
    (pProv \in {"BFL", "FAL"} /\ pElapsed >= Deadline(pProv))
        => (pPc = "done" /\ pOut = Failure("timeout", TRUE))

(***************************************************************************)
(* Retry executor                                                          *)
(***************************************************************************)

\* largest attempt budget explored
MaxBudget == 4

WorkOutcomes == {"ok", "retryable", "permanent"}

RetryNone == [kind |-> "none", retryable |-> FALSE, at |-> 0, exhausted |-> FALSE]
\* the value returned by invocation n of the work
RetrySuccess(n) == [kind |-> "result", retryable |-> FALSE, at |-> n, exhausted |-> FALSE]
\* the error thrown by invocation n of the work, as the caller sees it
RetryError(n, retryable, exhausted) ==
    [kind |-> "error", retryable |-> retryable, at |-> n, exhausted |-> exhausted]

InitRetry ==
    /\ IdlePoll /\ IdleRate /\ IdleGen /\ IdleSel /\ IdleOrch /\ IdleConc /\ IdleHttp /\ IdleReg /\ IdleTerm /\ IdleTimer /\ IdleEdit
    /\ rBudget \in 1 .. MaxBudget
    /\ rWork \in [1 .. rBudget -> WorkOutcomes]
    /\ rCalls = 0
    /\ rPc = "call"
    /\ rOut = RetryNone

\* What the executor does with the outcome of invocation number n:
\* return the value, rethrow a permanent error at once, retry after a delay
\* while attempts remain, and surface the last error, marked as exhaustion,
\* when they do not.
RetryDecisionIgnoresFlag(outcome, n, budget) ==
    IF outcome = "ok" THEN "return"
    ELSE IF n < budget THEN "retry"
    ELSE "exhausted"

RetryDecisionShortBudget(outcome, n, budget) ==
    IF outcome = "ok" THEN "return"
    ELSE IF outcome = "permanent" THEN "throw"
    ELSE IF n < budget - 1 THEN "retry"
    ELSE "exhausted"

\* an executor that rethrows the last error as it is when attempts run out
RetryDecisionNoWrap(outcome, n, budget) ==
    IF outcome = "ok" THEN "return"
    ELSE IF outcome = "permanent" THEN "throw"
    ELSE IF n < budget THEN "retry"
    ELSE "throw"

\* an executor that grants one attempt more than its budget
RetryDecisionOneMore(outcome, n, budget) ==
    IF outcome = "ok" THEN "return"
    ELSE IF outcome = "permanent" THEN "throw"
    ELSE IF n <= budget THEN "retry"
    ELSE "exhausted"

RetryDecision(outcome, n, budget) ==
    IF outcome = "ok" THEN "return"
    ELSE IF outcome = "permanent" THEN "throw"
    ELSE IF n < budget THEN "retry"
    ELSE "exhausted"

\* one invocation of the unit of work and the executor's reaction to it
RetryCall ==
    /\ rPc = "call"
    /\ LET n == rCalls + 1
           d == RetryDecision(rWork[n], n, rBudget) IN
       /\ rCalls' = n
       /\ CASE d = "return" -> rPc' = "done" /\ rOut' = RetrySuccess(n)
            [] d = "throw" -> rPc' = "done" /\ rOut' = RetryError(n, FALSE, FALSE)
            [] d = "retry" -> rPc' = "sleep" /\ rOut' = rOut
            [] d = "exhausted" ->
                 rPc' = "done" /\ rOut' = RetryError(n, rWork[n] = "retryable", TRUE)
    /\ UNCHANGED <<rBudget, rWork>>

\* the backoff delay between two attempts
RetrySleep ==
    /\ rPc = "sleep"
    /\ rPc' = "call"
    /\ UNCHANGED <<rBudget, rWork, rCalls, rOut>>

NextRetry ==
    \/ RetryCall /\ UNCHANGED <<pollVars, rateVars, genVars, selVars, orchVars, concVars, httpVars, regVars, termVars, timerVars, editVars>>
    \/ RetrySleep /\ UNCHANGED <<pollVars, rateVars, genVars, selVars, orchVars, concVars, httpVars, regVars, termVars, timerVars, editVars>>

SpecRetry == InitRetry /\ [][NextRetry]_vars

\* C3: whatever the budget, an invocation that fails with a non-retryable
\* error is the last one, and the caller gets exactly that error, unwrapped;
\* so a work that always fails permanently is invoked once.
C3_PermanentAborts ==
    \A j \in 1 .. rCalls :
        rWork[j] = "permanent"
            => (rCalls = j /\ rPc = "done" /\ rOut = RetryError(j, FALSE, FALSE))

\* C3 witness: the second invocation failed permanently with budget left.
C3_Witness ==
    /\ rPc = "done" /\ rBudget >= 3 /\ rCalls = 2
    /\ rWork[1] = "retryable" /\ rWork[2] = "permanent"

\* the work fails retryably on invocations 1 .. n-1 and succeeds on the n-th
SucceedsAt(n) ==
    /\ n \in 1 .. rBudget
    /\ rWork[n] = "ok"
    /\ \A j \in 1 .. n - 1 : rWork[j] = "retryable"

\* C4: for every n from 1 to maxAttempts, a work that fails retryably n-1
\* times and then succeeds is invoked exactly n times and the executor
\* returns the value of the n-th invocation.
C4_EventualSuccess ==
    \A n \in 1 .. rBudget :
        SucceedsAt(n)
            => /\ rCalls <= n
               /\ (rCalls = n <=> rPc = "done")
               /\ (rPc = "done" => rOut = RetrySuccess(n))

\* C4 witness: the tested case, two retryable failures then success with
\* maxAttempts = 3.
C4_Witness ==
    /\ rBudget = 3 /\ SucceedsAt(3)
    /\ rPc = "done" /\ rCalls = 3 /\ rOut = RetrySuccess(3)

\* every invocation the budget allows fails with a retryable error
AlwaysRetryable == \A j \in 1 .. rBudget : rWork[j] = "retryable"

\* C20: when every attempt fails with a retryable error, the unit of work
\* is invoked exactly maxAttempts times, never more, and the error then
\* surfaced is that of the last attempt, marked as retry exhaustion.
C20_RetryExhaustion ==
    /\ rCalls <= rBudget
    /\ AlwaysRetryable =>
          /\ (rPc = "done" <=> rCalls = rBudget)
          /\ (rPc = "done" => rOut = RetryError(rBudget, TRUE, TRUE))

\* C20 witness: three attempts allowed, all three failed retryably.
C20_Witness ==
    /\ rBudget = 3 /\ AlwaysRetryable
    /\ rPc = "done" /\ rCalls = 3 /\ rOut.exhausted /\ rOut.at = 3


(***************************************************************************)
(* Rate limiter and the entry of generate                                  *)
(***************************************************************************)

\* 10 requests per minute and provider, sliding window
RateLimitCapacity == 10
RateLimitWindow == 60

\* the clock advances in steps of TickStep seconds up to MaxNow
TickStep == 30
MaxNow == 90
\* generate calls explored
MaxCalls == 12

\* timestamps of `times` still inside the window at time t
InWindow(times, t) == SelectSeq(times, LAMBDA s : t - s < RateLimitWindow)

\* a limiter that lets a call pass without recording it
CheckRateLimitNoRecord(times, t) ==
    LET live == InWindow(times, t) IN
    [ok |-> Len(live) < RateLimitCapacity, times |-> live]

\* a limiter that records the calls it rejects as well
CheckRateLimitRecordAll(times, t) ==
    LET live == InWindow(times, t) IN
    [ok |-> Len(live) < RateLimitCapacity, times |-> Append(live, t)]

\* checkRateLimit: prune the expired timestamps, then record the call when
\* fewer than RateLimitCapacity remain and fail at once otherwise.
CheckRateLimit(times, t) ==
    LET live == InWindow(times, t) IN
    IF Len(live) < RateLimitCapacity
    THEN [ok |-> TRUE, times |-> Append(live, t)]
    ELSE [ok |-> FALSE, times |-> live]

\* The entry of generate up to the rate-limit check: API key, prompt, then
\* checkRateLimit.  kind: "validation" and "ratelimit" are the thrown
\* non-retryable / rate-limit ProviderErrors, "ok" lets the call go on.
GenerateEntryNoLimit(keyValid, promptValid, times, t) ==
    IF ~keyValid \/ ~promptValid
    THEN [kind |-> "validation", times |-> times]
    ELSE [kind |-> "ok", times |-> times]

GenerateEntry(keyValid, promptValid, times, t) ==
    IF ~keyValid THEN [kind |-> "validation", times |-> times]
    ELSE IF ~promptValid THEN [kind |-> "validation", times |-> times]
    ELSE LET c == CheckRateLimit(times, t) IN
         [kind |-> IF c.ok THEN "ok" ELSE "ratelimit", times |-> c.times]

\* an entry that keeps one window for all providers
EnterGenerateShared(p, keyValid, promptValid) ==
    LET e == GenerateEntry(keyValid, promptValid, requestTimes["BFL"], now)
        before == Len(InWindow(admitLog[p], now)) IN
    /\ requestTimes' = [q \in DOMAIN requestTimes |-> e.times]
    /\ admitLog' = [admitLog EXCEPT ![p] =
                       IF e.kind = "ok" THEN Append(InWindow(@, now), now)
                       ELSE InWindow(@, now)]
    /\ lastAdmit' = [prov |-> p, kind |-> e.kind, before |-> before,
                     rejectedBefore |->
                        IF lastAdmit.prov = p
                        THEN lastAdmit.rejectedBefore \/ lastAdmit.kind = "ratelimit"
                        ELSE FALSE]
    /\ genCalls' = genCalls + 1

\* bookkeeping of one entry: the window, the log of calls that went on, and
\* the record of how this call fared
EnterGenerate(p, keyValid, promptValid) ==
    LET e == GenerateEntry(keyValid, promptValid, requestTimes[p], now)
        before == Len(InWindow(admitLog[p], now)) IN
    /\ requestTimes' = [requestTimes EXCEPT ![p] = e.times]
    /\ admitLog' = [admitLog EXCEPT ![p] =
                       IF e.kind = "ok" THEN Append(InWindow(@, now), now)
                       ELSE InWindow(@, now)]
    /\ lastAdmit' = [prov |-> p, kind |-> e.kind, before |-> before,
                     rejectedBefore |->
                        IF lastAdmit.prov = p
                        THEN lastAdmit.rejectedBefore \/ lastAdmit.kind = "ratelimit"
                        ELSE FALSE]
    /\ genCalls' = genCalls + 1

\* a generate call seen from the rate limiter: only its entry matters here
GenerateCall ==
    /\ genCalls < MaxCalls
    /\ \E p \in GenProviders, keyValid \in BOOLEAN, promptValid \in BOOLEAN :
          EnterGenerate(p, keyValid, promptValid)
    /\ UNCHANGED now

Tick ==
    /\ now + TickStep <= MaxNow
    /\ now' = now + TickStep
    /\ UNCHANGED <<requestTimes, admitLog, lastAdmit, genCalls>>

InitRate == IdlePoll /\ IdleRetry /\ IdleRate /\ IdleGen /\ IdleSel /\ IdleOrch /\ IdleConc /\ IdleHttp /\ IdleReg /\ IdleTerm /\ IdleTimer /\ IdleEdit

NextRate ==
    \/ GenerateCall /\ UNCHANGED <<pollVars, retryVars, genVars, selVars, orchVars, concVars, httpVars, regVars, termVars, timerVars, editVars>>
    \/ Tick /\ UNCHANGED <<pollVars, retryVars, genVars, selVars, orchVars, concVars, httpVars, regVars, termVars, timerVars, editVars>>

SpecRate == InitRate /\ [][NextRate]_vars

\* C1: with capacity 10 and a 60 s window, a generate call with valid key
\* and prompt passes the rate-limit check exactly when fewer than 10 calls
\* passed it within the last 60 s: calls 1..10 of a window pass, the 11th
\* fails at once with the rate-limit error, and once the window has elapsed
\* a call passes again.  At no time do more than 10 recorded calls share a
\* window.
C1_RateLimitBoundary ==
    /\ \A p \in GenProviders : Len(InWindow(admitLog[p], now)) <= RateLimitCapacity
    /\ lastAdmit.kind = "ok" => lastAdmit.before < RateLimitCapacity
    /\ lastAdmit.kind = "ratelimit" => lastAdmit.before = RateLimitCapacity
    /\ lastAdmit.kind \in {"none", "ok", "ratelimit", "validation"}

\* C1 witness: the 11th call of a window was rejected, and after the window
\* elapsed a call passed again.
C1_Witness ==
    /\ lastAdmit.kind = "ok" /\ lastAdmit.before = 0 /\ lastAdmit.rejectedBefore
    /\ genCalls >= RateLimitCapacity + 2

\* a call the limiter rejects leaves the window as it was
RejectRecordsNothing ==
    (genCalls' # genCalls /\ lastAdmit'.kind = "ratelimit") =>
        requestTimes' = requestTimes

\* C30: a rejected rate-limit check records no timestamp, so rejections do
\* not extend the backpressure: a call that finds fewer than the capacity
\* of admitted calls in the window passes, whether or not calls were
\* rejected before it.
C30_RejectChangesNothing ==
    /\ [][RejectRecordsNothing]_vars
    /\ [](\A p \in GenProviders :
             Len(InWindow(requestTimes[p], now)) = Len(InWindow(admitLog[p], now)))
    /\ []((lastAdmit.rejectedBefore /\ lastAdmit.kind # "validation"
            /\ lastAdmit.before < RateLimitCapacity) => lastAdmit.kind = "ok")

\* C30 witness: calls were rejected while the window was full; the first
\* call after the admitted ones had left the window passed and is the only
\* one recorded
C30_Witness ==
    /\ lastAdmit.kind = "ok" /\ lastAdmit.rejectedBefore
    /\ now >= RateLimitWindow
    /\ requestTimes[lastAdmit.prov] = <<now>>

\* a generate call leaves the windows of the providers it was not made on
\* as they were
OthersUntouched ==
    genCalls' # genCalls =>
        \A b \in GenProviders \ {lastAdmit'.prov} :
            requestTimes'[b] = requestTimes[b]

\* C27: a rate-limit check for one provider, accepted or rejected, leaves
\* the window of every other provider unchanged; a call is rejected only
\* when its own provider's window is full, however many calls the other
\* providers took.
C27_LimiterIndependence ==
    /\ [][OthersUntouched]_vars
    /\ [](lastAdmit.kind = "ratelimit" =>
            /\ lastAdmit.before = RateLimitCapacity
            /\ Len(requestTimes[lastAdmit.prov]) = RateLimitCapacity)

\* C27 witness: BFL's window is full and a call on FAL was admitted
C27_Witness ==
    /\ Len(InWindow(requestTimes["BFL"], now)) = RateLimitCapacity
    /\ lastAdmit.prov = "FAL" /\ lastAdmit.kind = "ok"
    /\ genCalls > RateLimitCapacity

(***************************************************************************)
(* generate: rate limit, cache lookup, attempts under the retry executor   *)
(***************************************************************************)

\* BFL and Fal check the limiter and the cache; Replicate has neither
CachedProviders == {"BFL", "FAL"}
SeqProviders == {"BFL", "FAL", "REPLICATE"}

\* 5-minute TTL, in seconds
CacheTtl == 300
\* attempts the retry executor grants a generate call
GenRetryBudget == 3

\* clock of SpecGen
GenTickStep == 155
MaxGenNow == 320
\* tracked requests per behaviour
MaxGenRequests == 2

\* calls other requests made at time 0: none, one slot left, window full
PreloadChoices == {0, RateLimitCapacity - 1, RateLimitCapacity}

\* what one attempt's backend exchange ends in ("failed": the job ended
\* Failed; "timeout": the poll budget ran out; "empty": no image in the
\* answer; "badDownload": the image URL answered with an HTTP error;
\* "econnrefused", "parse": exceptions of the request)
AttemptOutcomes == {"ok", "http5xx", "http429", "http4xx", "failed", "timeout",
                    "empty", "badDownload", "econnrefused", "parse"}

\* a lookup that never lets an entry expire
GetCachedResultNoTtl(c, key, t) ==
    IF c[key] # NoEntry THEN c[key].val ELSE 0

\* getCachedResult: the value, or 0 when absent or older than the TTL
GetCachedResult(c, key, t) ==
    IF c[key] # NoEntry /\ t - c[key].at < CacheTtl THEN c[key].val ELSE 0

\* the cache holds at most this many entries
CacheCeiling == 100

\* keys that have an entry
Entries(c) == {k \in DOMAIN c : c[k] # NoEntry}

\* an entry with the oldest creation time, the one of key `keep` aside
OldestOf(c, keys) == CHOOSE k \in keys : \A j \in keys : c[k].at <= c[j].at
OldestKey(c, keep) == OldestOf(c, Entries(c) \ {keep})

\* drop oldest entries until the ceiling is respected
RECURSIVE EvictOldest(_, _)
EvictOldest(c, keep) ==
    IF Cardinality(Entries(c)) <= CacheCeiling THEN c
    ELSE EvictOldest([c EXCEPT ![OldestKey(c, keep)] = NoEntry], keep)

\* a store that never evicts
CacheResultNoEvict(c, key, val, t) == [c EXCEPT ![key] = [val |-> val, at |-> t]]

\* cacheResult: store the entry, then evict the oldest ones over the ceiling
CacheResult(c, key, val, t) ==
    EvictOldest([c EXCEPT ![key] = [val |-> val, at |-> t]], key)

\* isRetryable of the ProviderError an attempt of BFL throws
BFLRetryable(outcome) == outcome \in {"http5xx", "http429", "timeout", "econnrefused"}

\* isRetryable of the ProviderError an attempt of Fal throws
FalRetryable(outcome) ==
    outcome \in {"http5xx", "failed", "timeout", "badDownload", "econnrefused", "parse"}

\* how the retry executor sees an attempt of provider p: BFL does not look
\* at the status of the image download and takes its body as the image
AttemptClass(p, outcome) ==
    IF outcome = "ok" \/ (p = "BFL" /\ outcome = "badDownload") THEN "ok"
    ELSE IF (p = "BFL" /\ BFLRetryable(outcome)) \/ (p = "FAL" /\ FalRetryable(outcome))
    THEN "retryable"
    ELSE "permanent"

\* cacheResult called for every attempt, failed ones included
CacheAlways(c, d, key, val, t) == CacheResult(c, key, val, t)

\* the cache after an attempt the executor decided d about: cacheResult is
\* called only on the paths that return a result
CacheOnSuccess(c, d, key, val, t) ==
    IF d = "return" THEN CacheResult(c, key, val, t) ELSE c

\* isRetryable of the ProviderError Replicate's generate throws
ReplicateRetryable(outcome) ==
    outcome \in {"http5xx", "http429", "timeout", "badDownload", "econnrefused"}

Finished(key, kind, val, retryable, cached, start) ==
    [key |-> key, kind |-> kind, val |-> val, retryable |-> retryable,
     cached |-> cached, start |-> start, at |-> now]

\* a generate that looks the result up before it asks the limiter
CachedGenerateStartCacheFirst(key) ==
    LET e == GenerateEntry(gKeyValid, PromptValid(key), requestTimes[gProv], now)
        hit == GetCachedResult(cache, key, now) IN
    /\ gReq.pc = "idle" /\ Len(gDone) < MaxGenRequests
    /\ IF e.kind = "validation"
       THEN /\ EnterGenerate(gProv, gKeyValid, PromptValid(key))
            /\ gDone' = Append(gDone, Finished(key, e.kind, 0, FALSE, FALSE, now))
            /\ gReq' = NoReq
       ELSE IF hit # 0
       THEN /\ gDone' = Append(gDone, Finished(key, "result", hit, FALSE, TRUE, now))
            /\ gReq' = NoReq
            /\ UNCHANGED <<requestTimes, admitLog, lastAdmit, genCalls>>
       ELSE /\ EnterGenerate(gProv, gKeyValid, PromptValid(key))
            /\ IF e.kind # "ok"
               THEN /\ gDone' = Append(gDone, Finished(key, e.kind, 0, FALSE, FALSE, now))
                    /\ gReq' = NoReq
               ELSE /\ gReq' = [pc |-> "attempt", key |-> key, attempt |-> 1, start |-> now]
                    /\ gDone' = gDone
    /\ UNCHANGED <<gProv, gKeyValid, cache, gNet, now>>

\* generate of a caching provider up to the first backend request
CachedGenerateStart(key) ==
    LET e == GenerateEntry(gKeyValid, PromptValid(key), requestTimes[gProv], now)
        hit == GetCachedResult(cache, key, now) IN
    /\ gReq.pc = "idle" /\ Len(gDone) < MaxGenRequests
    /\ EnterGenerate(gProv, gKeyValid, PromptValid(key))
    /\ IF e.kind # "ok"
       THEN /\ gDone' = Append(gDone, Finished(key, e.kind, 0, FALSE, FALSE, now))
            /\ gReq' = NoReq
       ELSE IF hit # 0
       THEN /\ gDone' = Append(gDone, Finished(key, "result", hit, FALSE, TRUE, now))
            /\ gReq' = NoReq
       ELSE /\ gReq' = [pc |-> "attempt", key |-> key, attempt |-> 1, start |-> now]
            /\ gDone' = gDone
    /\ UNCHANGED <<gProv, gKeyValid, cache, gNet, now>>

\* BFLProvider.generate up to the first backend request
BFLGenerateStart(key) == gProv = "BFL" /\ CachedGenerateStart(key)

\* FalProvider.generate up to the first backend request
FalGenerateStart(key) == gProv = "FAL" /\ CachedGenerateStart(key)

\* an attempt that asks the rate limiter itself, as if checkRateLimit were
\* called inside the retried function
CachedGenerateAttemptAdmits(outcome) ==
    LET key == gReq.key
        class == AttemptClass(gProv, outcome)
        d == RetryDecision(class, gReq.attempt, GenRetryBudget)
        val == gNet[key] + 1 IN
    /\ gReq.pc = "attempt"
    /\ gNet' = [gNet EXCEPT ![key] = val]
    /\ cache' = CacheOnSuccess(cache, d, key, val, now)
    /\ CASE d = "return" ->
              /\ gDone' = Append(gDone, Finished(key, "result", val, FALSE, FALSE, gReq.start))
              /\ gReq' = NoReq
         [] d = "retry" ->
              /\ gReq' = [gReq EXCEPT !.pc = "backoff"]
              /\ gDone' = gDone
         [] OTHER ->
              /\ gDone' = Append(gDone, Finished(key, "error", 0, d = "exhausted", FALSE, gReq.start))
              /\ gReq' = NoReq
    /\ EnterGenerate(gProv, gKeyValid, PromptValid(gReq.key))
    /\ UNCHANGED <<gProv, gKeyValid, now>>

\* one attempt under executeWithRetry: the request is sent; a result is
\* cached and returned, an error is retried or thrown
CachedGenerateAttempt(outcome) ==
    LET key == gReq.key
        class == AttemptClass(gProv, outcome)
        d == RetryDecision(class, gReq.attempt, GenRetryBudget)
        val == gNet[key] + 1 IN
    /\ gReq.pc = "attempt"
    /\ gNet' = [gNet EXCEPT ![key] = val]
    /\ cache' = CacheOnSuccess(cache, d, key, val, now)
    /\ CASE d = "return" ->
              /\ gDone' = Append(gDone, Finished(key, "result", val, FALSE, FALSE, gReq.start))
              /\ gReq' = NoReq
         [] d = "retry" ->
              /\ gReq' = [gReq EXCEPT !.pc = "backoff"]
              /\ gDone' = gDone
         [] OTHER ->
              /\ gDone' = Append(gDone, Finished(key, "error", 0, d = "exhausted", FALSE, gReq.start))
              /\ gReq' = NoReq
    /\ UNCHANGED <<gProv, gKeyValid, rateVars>>

\* one attempt of BFLProvider.generate
BFLGenerateAttempt(outcome) == gProv = "BFL" /\ CachedGenerateAttempt(outcome)

\* one attempt of FalProvider.generate
FalGenerateAttempt(outcome) == gProv = "FAL" /\ CachedGenerateAttempt(outcome)

\* the executor's sleep between two attempts
GenerateBackoff ==
    /\ gReq.pc = "backoff"
    /\ gReq' = [gReq EXCEPT !.pc = "attempt", !.attempt = @ + 1]
    /\ UNCHANGED <<gProv, gKeyValid, cache, gDone, gNet, rateVars>>

\* ReplicateProvider.generate: token check, createPrediction, poll, download
ReplicateGenerate(key, outcome) ==
    LET val == gNet[key] + 1 IN
    /\ gProv = "REPLICATE" /\ gReq.pc = "idle" /\ Len(gDone) < MaxGenRequests
    /\ IF ~gKeyValid
       THEN /\ gDone' = Append(gDone, Finished(key, "validation", 0, FALSE, FALSE, now))
            /\ gNet' = gNet
       ELSE /\ gNet' = [gNet EXCEPT ![key] = val]
            /\ gDone' = Append(gDone,
                   IF outcome = "ok"
                   THEN Finished(key, "result", val, FALSE, FALSE, now)
                   ELSE Finished(key, "error", 0, ReplicateRetryable(outcome), FALSE, now))
    /\ UNCHANGED <<gProv, gKeyValid, cache, gReq, rateVars>>

GenTick ==
    /\ now + GenTickStep <= MaxGenNow
    /\ now' = now + GenTickStep
    /\ UNCHANGED <<requestTimes, admitLog, lastAdmit, genCalls, genVars>>

InitGen ==
    /\ IdlePoll /\ IdleRetry /\ IdleSel /\ IdleOrch /\ IdleConc /\ IdleHttp /\ IdleReg /\ IdleTerm /\ IdleTimer /\ IdleEdit
    /\ now = 0
    /\ gProv \in SeqProviders
    /\ gKeyValid \in BOOLEAN
    \* earlier calls of other requests at time 0 have loaded the limiter
    /\ \E n \in PreloadChoices :
          /\ gProv \notin CachedProviders => n = 0
          /\ requestTimes = [p \in GenProviders |->
                                IF p = gProv THEN [i \in 1..n |-> 0] ELSE <<>>]
          /\ admitLog = requestTimes
          /\ genCalls = n
    /\ lastAdmit = NoAdmit
    /\ cache = [k \in GenKeys |-> NoEntry]
    /\ gReq = NoReq
    /\ gDone = <<>>
    /\ gNet = [k \in GenKeys |-> 0]

NextGen ==
    \/ /\ \E key \in GenKeys : BFLGenerateStart(key)
       /\ UNCHANGED <<pollVars, retryVars, selVars, orchVars, concVars, httpVars, regVars, termVars, timerVars, editVars>>
    \/ /\ \E outcome \in AttemptOutcomes : BFLGenerateAttempt(outcome)
       /\ UNCHANGED <<pollVars, retryVars, selVars, orchVars, concVars, httpVars, regVars, termVars, timerVars, editVars>>
    \/ /\ \E key \in GenKeys : FalGenerateStart(key)
       /\ UNCHANGED <<pollVars, retryVars, selVars, orchVars, concVars, httpVars, regVars, termVars, timerVars, editVars>>
    \/ /\ \E outcome \in AttemptOutcomes : FalGenerateAttempt(outcome)
       /\ UNCHANGED <<pollVars, retryVars, selVars, orchVars, concVars, httpVars, regVars, termVars, timerVars, editVars>>
    \/ GenerateBackoff /\ UNCHANGED <<pollVars, retryVars, selVars, orchVars, concVars, httpVars, regVars, termVars, timerVars, editVars>>
    \/ /\ \E key \in GenKeys, outcome \in AttemptOutcomes :
             ReplicateGenerate(key, outcome)
       /\ UNCHANGED <<pollVars, retryVars, selVars, orchVars, concVars, httpVars, regVars, termVars, timerVars, editVars>>
    \/ GenTick /\ UNCHANGED <<pollVars, retryVars, selVars, orchVars, concVars, httpVars, regVars, termVars, timerVars, editVars>>

SpecGen == InitGen /\ [][NextGen]_vars

\* C2: when a generate request completed with a result and a second request
\* with the same key is issued on the same provider less than the TTL
\* later, the backend is asked to generate at most once in total and the
\* second request returns the result of the first.
C2_CacheIdempotence ==
    (/\ Len(gDone) = 2 /\ gReq.pc = "idle"
     /\ gDone[1].kind = "result"
     /\ gDone[2].key = gDone[1].key
     /\ gDone[2].start - gDone[1].at < CacheTtl)
    => /\ gDone[2].kind = "result"
       /\ gDone[2].val = gDone[1].val
       /\ gNet[gDone[1].key] <= 1

\* the finished request whose backend call produced cache entry e of key k
StoredBy(k, e) ==
    {i \in 1..Len(gDone) : /\ gDone[i].kind = "result" /\ ~gDone[i].cached
                           /\ gDone[i].key = k /\ gDone[i].val = e.val
                           /\ gDone[i].at = e.at}

\* C14: in every reachable state each entry of the result cache was stored
\* by a backend call that ended in a result; a call that ends in an error
\* (HTTP error, failed job, poll timeout, empty image list, exhausted
\* retries) neither adds nor changes an entry.
C14_CacheOnlySuccess ==
    \A k \in GenKeys : cache[k] # NoEntry => StoredBy(k, cache[k]) # {}

\* a result was cached, it expired, and a later request of the same key
\* exhausted its retries: the entry is still the one of the first call
C14_Witness ==
    /\ Len(gDone) = 2 /\ gReq.pc = "idle"
    /\ gDone[1].kind = "result" /\ ~gDone[1].cached
    /\ gDone[2].kind = "error" /\ gDone[2].retryable
    /\ gDone[2].key = gDone[1].key
    /\ gNet[gDone[1].key] = 1 + GenRetryBudget
    /\ cache[gDone[1].key] = [val |-> gDone[1].val, at |-> gDone[1].at]

\* the second request asks a caching provider for the image the first one
\* produced and stored, and gets past validation and the limiter
SameKeyAgain ==
    /\ Len(gDone) = 2 /\ gProv \in CachedProviders
    /\ gDone[1].kind = "result" /\ ~gDone[1].cached
    /\ gDone[2].key = gDone[1].key
    /\ gDone[2].kind \in {"result", "error"}

\* C21: a lookup of a key never stored finds nothing; a lookup made less
\* than the TTL (5 minutes) after the store returns the stored result; a
\* lookup made when the entry is older than the TTL treats it as absent, so
\* the same request then goes to the backend again.
C21_CacheLookupTtl ==
    /\ \A k \in GenKeys :
          /\ cache[k] = NoEntry => GetCachedResult(cache, k, now) = 0
          /\ (cache[k] # NoEntry /\ now - cache[k].at < CacheTtl)
                => GetCachedResult(cache, k, now) = cache[k].val
          /\ (cache[k] # NoEntry /\ now - cache[k].at > CacheTtl)
                => GetCachedResult(cache, k, now) = 0
    /\ SameKeyAgain =>
          IF gDone[2].start - gDone[1].at < CacheTtl
          THEN gDone[2].cached /\ gDone[2].val = gDone[1].val
          ELSE ~gDone[2].cached /\ gNet[gDone[1].key] >= 2

\* C21 witness: the entry was older than the TTL when the same request came
\* again, and the backend produced a new result
C21_Witness ==
    /\ SameKeyAgain /\ gDone[2].start - gDone[1].at > CacheTtl
    /\ gDone[2].kind = "result" /\ gDone[2].val # gDone[1].val
    /\ gNet[gDone[1].key] = 2

\* a step in which a generate call with valid key and prompt starts
GenerateStarts ==
    /\ gReq.pc = "idle"
    /\ gDone' # gDone \/ gReq' # gReq
    /\ gKeyValid
    /\ PromptValid(IF gDone' # gDone THEN gDone'[Len(gDone')].key ELSE gReq'.key)

\* the limiter is asked first, the cache second
AdmitThenLookup ==
    LET key == IF gDone' # gDone THEN gDone'[Len(gDone')].key ELSE gReq'.key
        \* a provider that never calls checkRateLimit has no window
        live == IF gProv \in DOMAIN requestTimes
                THEN InWindow(requestTimes[gProv], now) ELSE <<>>
        hit == GetCachedResult(cache, key, now) IN
    GenerateStarts =>
        /\ Len(live) >= RateLimitCapacity =>
              /\ gDone' = Append(gDone, Finished(key, "ratelimit", 0, FALSE, FALSE, now))
              /\ requestTimes'[gProv] = live
        /\ (Len(live) < RateLimitCapacity /\ hit # 0) =>
              /\ gDone' = Append(gDone, Finished(key, "result", hit, FALSE, TRUE, now))
              /\ requestTimes'[gProv] = Append(live, now)
        /\ (Len(live) < RateLimitCapacity /\ hit = 0 /\ gProv \in CachedProviders) =>
              /\ gReq'.pc = "attempt"
              /\ requestTimes'[gProv] = Append(live, now)

\* C28: a generate call asks the rate limiter before it looks into the
\* cache: a call answered from the cache has recorded one admission, and a
\* call that finds the window full fails with the rate-limit error even
\* when its result is in the cache.
C28_AdmitThenCache == [][AdmitThenLookup]_vars

\* C28 witness: the first request took the last slot of the window and
\* stored its result; the same request made again, with the entry fresh,
\* was rejected by the limiter
C28_Witness ==
    /\ Len(gDone) = 2
    /\ gDone[1].kind = "result" /\ ~gDone[1].cached
    /\ gDone[2].kind = "ratelimit" /\ gDone[2].key = gDone[1].key
    /\ GetCachedResult(cache, gDone[2].key, gDone[2].at) = gDone[1].val
    /\ Len(InWindow(requestTimes[gProv], now)) = RateLimitCapacity

\* while a call is between its first attempt and its end the window stays
\* as it is; the step that starts the first attempt recorded one timestamp
OneAdmission ==
    /\ gReq.pc # "idle" => requestTimes' = requestTimes
    /\ (gReq.pc = "idle" /\ gReq'.pc = "attempt") =>
          requestTimes' = [requestTimes EXCEPT ![gProv] =
                              Append(InWindow(requestTimes[gProv], now), now)]

\* C35: a generate call records one rate-limit admission, before the retry
\* executor starts; the attempts and delays of the executor record none,
\* however many there are.
C35_OneAdmissionPerRequest == [][OneAdmission]_vars

\* C35 witness: a call into an empty window used all its attempts and
\* failed; the window holds the one timestamp of its admission
C35_Witness ==
    /\ Len(gDone) = 1 /\ gReq.pc = "idle"
    /\ gDone[1].kind = "error" /\ gDone[1].retryable
    /\ gNet[gDone[1].key] = GenRetryBudget
    /\ requestTimes[gProv] = <<gDone[1].start>>

\* a step in which a generate call starts whose API key or prompt is not
\* valid
InvalidStarts ==
    /\ gReq.pc = "idle"
    /\ gDone' # gDone \/ gReq' # gReq
    /\ \/ ~gKeyValid
       \/ ~PromptValid(IF gDone' # gDone THEN gDone'[Len(gDone')].key ELSE gReq'.key)

\* the call ends in the validation error and touches nothing else
FailsUntouched ==
    LET key == IF gDone' # gDone THEN gDone'[Len(gDone')].key ELSE gReq'.key IN
    InvalidStarts =>
        /\ gDone' = Append(gDone, Finished(key, "validation", 0, FALSE, FALSE, now))
        /\ requestTimes' = requestTimes
        /\ cache' = cache
        /\ gNet' = gNet

\* C29: a generate call whose prompt is empty, blank or too long, or whose
\* API key is missing or a placeholder, fails with a non-retryable error
\* before the rate limiter is asked: no admission is recorded, the cache
\* stays as it is and no request goes to the backend.
C29_ValidationFirst == [][FailsUntouched]_vars

(***************************************************************************)
(* Classification of failed HTTP responses                                 *)
(***************************************************************************)

HttpAdapters == {"BFL", "FAL", "CLIPDROP", "STABILITY", "GEMINI", "IDEOGRAM",
                 "RECRAFT", "OPENAI", "REPLICATE"}

\* statuses of failed responses: client errors, throttling, server errors
FailedStatuses == {400, 401, 402, 403, 404, 413, 422, 429, 500, 502, 503, 504}

\* isRetryable as generate computes it from the status of the response to
\* its generation request
HttpRetryable(adapter, status) ==
    IF adapter \in {"FAL", "CLIPDROP"}
    THEN status >= 500
    ELSE status >= 500 \/ status = 429

\* generate receives the response and throws its ProviderError
ClassifyResponse ==
    /\ hPc = "received"
    /\ hRetryable' = HttpRetryable(hAdapter, hStatus)
    /\ hPc' = "thrown"
    /\ UNCHANGED <<hAdapter, hStatus>>

InitHttp ==
    /\ IdlePoll /\ IdleRetry /\ IdleRate /\ IdleGen /\ IdleSel /\ IdleOrch /\ IdleConc /\ IdleReg /\ IdleTerm /\ IdleTimer /\ IdleEdit
    /\ hAdapter \in HttpAdapters
    /\ hStatus \in FailedStatuses
    /\ hRetryable = FALSE
    /\ hPc = "received"

NextHttp ==
    ClassifyResponse /\ UNCHANGED <<pollVars, retryVars, rateVars, genVars, selVars,
                                    orchVars, concVars, regVars, termVars, timerVars, editVars>>

SpecHttp == InitHttp /\ [][NextHttp]_vars

\* C24: for every adapter and every status of a failed response, the error
\* raised is retryable when the status is 5xx or 429 (throttling), and
\* permanent for the other 4xx statuses.
C24_ErrorClassification ==
    hPc = "thrown" => (hRetryable <=> (hStatus >= 500 \/ hStatus = 429))

(***************************************************************************)
(* The result cache under capacity pressure                                *)
(***************************************************************************)

\* keys beyond the ceiling, and stores that hit a key already present
CacheExtra == 3
MaxRePuts == 2

CacheKeys == 1 .. (CacheCeiling + CacheExtra)

\* the largest key stored so far: keys are first used in increasing order
MaxKey(keys) == IF keys = {} THEN 0 ELSE CHOOSE k \in keys : \A j \in keys : j <= k
LastKey == MaxKey(Entries(cache))

\* cacheResult(key, result) at time `now`; the clock counts the stores
CachePut(key) ==
    /\ cache' = CacheResult(cache, key, now + 1, now)
    /\ now' = now + 1
    /\ UNCHANGED <<requestTimes, admitLog, lastAdmit, genCalls,
                   gProv, gKeyValid, gReq, gDone, gNet>>

\* a result for a request not seen before
CachePutNew == LastKey + 1 \in CacheKeys /\ CachePut(LastKey + 1)

\* a result for a request whose key is present, the oldest or the last
\* one; explored once the cache is within one entry of its ceiling
CachePutAgain ==
    /\ Cardinality(Entries(cache)) >= CacheCeiling - 1
    /\ now - LastKey < MaxRePuts
    /\ \E key \in {OldestKey(cache, 0), LastKey} : CachePut(key)

InitCache ==
    /\ IdlePoll /\ IdleRetry /\ IdleRate /\ IdleSel /\ IdleOrch /\ IdleConc /\ IdleHttp /\ IdleReg /\ IdleTerm /\ IdleTimer /\ IdleEdit
    /\ gProv = "" /\ gKeyValid = FALSE /\ gReq = NoReq /\ gDone = <<>>
    /\ gNet = [k \in GenKeys |-> 0]
    /\ cache = [k \in CacheKeys |-> NoEntry]

NextCache ==
    \/ CachePutNew /\ UNCHANGED <<pollVars, retryVars, selVars, orchVars, concVars, httpVars, regVars, termVars, timerVars, editVars>>
    \/ CachePutAgain /\ UNCHANGED <<pollVars, retryVars, selVars, orchVars, concVars, httpVars, regVars, termVars, timerVars, editVars>>

SpecCache == InitCache /\ [][NextCache]_vars

\* store at time t turned cache c into d, dropping the keys `gone`
Evicted(c, d, gone, kept, t) ==
    /\ \E k \in kept : d[k] = [val |-> t + 1, at |-> t]
    /\ gone # {} => Cardinality(kept) = CacheCeiling
    /\ \A g \in gone, k \in kept : c[g].at <= d[k].at

\* a store keeps the entry it wrote, evicts only to get back to the ceiling,
\* and evicts nothing younger than an entry it keeps
PutEvictsOldest ==
    cache' # cache =>
        Evicted(cache, cache', Entries(cache) \ Entries(cache'), Entries(cache'), now)

\* C22: after any sequence of stores the cache holds at most 100 entries;
\* a store that would exceed the ceiling evicts the entries with the oldest
\* creation time and keeps the entry just stored.
C22_CacheCapacity ==
    /\ [](Cardinality(Entries(cache)) <= CacheCeiling)
    /\ [][PutEvictsOldest]_vars

\* C22 witness: the cache is full, the first key was stored again before
\* the ceiling was reached, and the second key was evicted in its place
C22_Witness ==
    /\ Cardinality(Entries(cache)) = CacheCeiling
    /\ cache[1] # NoEntry /\ cache[1].at > 1
    /\ cache[2] = NoEntry
    /\ LastKey > CacheCeiling

(***************************************************************************)
(* generate calls in flight at the same time                               *)
(*                                                                         *)
(* The event loop runs one call at a time up to its next await; the steps  *)
(* below are those segments.  The limiter window and the cache belong to   *)
(* the provider instance and are shared by its calls.                      *)
(***************************************************************************)

\* calls in flight at the same time
MaxInflight == 2

ConcOutcomes == {"ok", "http5xx", "http4xx"}
\* the calls ask for the same image, or have a blank prompt
ConcKeys == {"k1", "blank"}

NewCall == [pc |-> "new", key |-> "", attempt |-> 0, val |-> 0,
            kind |-> "", cached |-> FALSE]

Returned(c, kind, val, cached) ==
    [c EXCEPT !.pc = "done", !.kind = kind, !.val = val, !.cached = cached]

\* generate from its call to `await this.checkRateLimit()`: key, prompt and
\* the limiter run in one segment
ConcStart(r, key) ==
    LET e == GenerateEntry(gKeyValid, PromptValid(key), requestTimes[gProv], now) IN
    /\ cReq[r].pc = "new"
    \* the calls are numbered in the order they start
    /\ \A q \in 1..(r - 1) : cReq[q].pc # "new"
    /\ EnterGenerate(gProv, gKeyValid, PromptValid(key))
    /\ cReq' = [cReq EXCEPT ![r] =
                   IF e.kind = "ok" THEN [@ EXCEPT !.pc = "admitted", !.key = key]
                   ELSE Returned([@ EXCEPT !.key = key], e.kind, 0, FALSE)]
    /\ UNCHANGED <<now, genVars>>

\* generate resumed after the limiter: cache lookup; on a miss the first
\* attempt sends its request and awaits the answer
ConcLookup(r) ==
    LET key == cReq[r].key
        hit == GetCachedResult(cache, key, now) IN
    /\ cReq[r].pc = "admitted"
    /\ IF hit # 0
       THEN /\ cReq' = [cReq EXCEPT ![r] = Returned(@, "result", hit, TRUE)]
            /\ gNet' = gNet
       ELSE /\ gNet' = [gNet EXCEPT ![key] = @ + 1]
            /\ cReq' = [cReq EXCEPT ![r] = [@ EXCEPT !.pc = "waiting", !.attempt = 1,
                                                    !.val = gNet[key] + 1]]
    /\ UNCHANGED <<gProv, gKeyValid, cache, gReq, gDone, rateVars>>

\* the attempt's exchange with the backend ended: a result is cached and
\* returned, an error is retried or thrown
ConcResponse(r, outcome) ==
    LET c == cReq[r]
        class == AttemptClass(gProv, outcome)
        d == RetryDecision(class, c.attempt, GenRetryBudget) IN
    /\ c.pc = "waiting"
    /\ cache' = CacheOnSuccess(cache, d, c.key, c.val, now)
    /\ cReq' = [cReq EXCEPT ![r] =
                   CASE d = "return" -> Returned(@, "result", c.val, FALSE)
                     [] d = "retry" -> [@ EXCEPT !.pc = "backoff"]
                     [] OTHER -> Returned(@, "error", 0, FALSE)]
    /\ UNCHANGED <<gProv, gKeyValid, gReq, gDone, gNet, rateVars>>

\* the executor's sleep ended: the next attempt sends its request
ConcBackoff(r) ==
    LET key == cReq[r].key IN
    /\ cReq[r].pc = "backoff"
    /\ gNet' = [gNet EXCEPT ![key] = @ + 1]
    /\ cReq' = [cReq EXCEPT ![r] = [@ EXCEPT !.pc = "waiting", !.attempt = @ + 1,
                                            !.val = gNet[key] + 1]]
    /\ UNCHANGED <<gProv, gKeyValid, cache, gReq, gDone, rateVars>>

InitConc ==
    /\ IdlePoll /\ IdleRetry /\ IdleSel /\ IdleOrch /\ IdleHttp /\ IdleReg /\ IdleTerm /\ IdleTimer /\ IdleEdit
    /\ now = 0
    \* Fal's generate has the same awaits around the limiter and the cache
    /\ gProv = "BFL"
    /\ gKeyValid \in BOOLEAN
    \* earlier calls at time 0 have loaded the limiter
    /\ \E n \in PreloadChoices :
          /\ requestTimes = [p \in GenProviders |->
                                IF p = gProv THEN [i \in 1..n |-> 0] ELSE <<>>]
          /\ admitLog = requestTimes
          /\ genCalls = n
    /\ lastAdmit = NoAdmit
    /\ cache = [k \in GenKeys |-> NoEntry]
    /\ gReq = NoReq
    /\ gDone = <<>>
    /\ gNet = [k \in GenKeys |-> 0]
    /\ cReq = [r \in 1..MaxInflight |-> NewCall]

NextConc ==
    \/ /\ \E r \in 1..MaxInflight, key \in ConcKeys : ConcStart(r, key)
       /\ UNCHANGED <<pollVars, retryVars, selVars, orchVars, httpVars, regVars, termVars, timerVars, editVars>>
    \/ /\ \E r \in 1..MaxInflight : ConcLookup(r)
       /\ UNCHANGED <<pollVars, retryVars, selVars, orchVars, httpVars, regVars, termVars, timerVars, editVars>>
    \/ /\ \E r \in 1..MaxInflight, outcome \in ConcOutcomes : ConcResponse(r, outcome)
       /\ UNCHANGED <<pollVars, retryVars, selVars, orchVars, httpVars, regVars, termVars, timerVars, editVars>>
    \/ /\ \E r \in 1..MaxInflight : ConcBackoff(r)
       /\ UNCHANGED <<pollVars, retryVars, selVars, orchVars, httpVars, regVars, termVars, timerVars, editVars>>
    \/ Tick /\ UNCHANGED <<pollVars, retryVars, genVars, selVars, orchVars, concVars, httpVars, regVars, termVars, timerVars, editVars>>

SpecConc == InitConc /\ [][NextConc]_vars

\* calls that passed the limiter and have not returned yet
InFlight == {r \in 1..MaxInflight : cReq[r].pc \in {"admitted", "waiting", "backoff"}}

\* C15: however the calls in flight on one provider interleave, the calls
\* recorded as admitted inside the sliding window never number more than
\* the capacity.
C15_NoDoubleAdmit ==
    Len(InWindow(admitLog[gProv], now)) <= RateLimitCapacity

\* one call took the last slot of the window and is still in flight when
\* another call is turned away
C15_Witness ==
    /\ InFlight # {}
    /\ \E r \in 1..MaxInflight : cReq[r].pc = "done" /\ cReq[r].kind = "ratelimit"
    /\ Len(InWindow(admitLog[gProv], now)) = RateLimitCapacity

\* two calls for the same image both returned a result, neither retried
BothReturned(a, b) ==
    /\ a # b
    /\ cReq[a].pc = "done" /\ cReq[b].pc = "done"
    /\ cReq[a].kind = "result" /\ cReq[b].kind = "result"
    /\ cReq[a].key = cReq[b].key
    /\ cReq[a].attempt <= 1 /\ cReq[b].attempt <= 1

\* C16: when two calls with the same normalized fields are in flight at the
\* same time on one provider, the backend is invoked at most once within
\* the TTL and both calls return the identical result.
C16_ConcurrentIdentical ==
    \A a, b \in 1..MaxInflight :
        BothReturned(a, b) =>
            /\ gNet[cReq[a].key] <= 1
            /\ cReq[a].val = cReq[b].val

(***************************************************************************)
(* Provider selection                                                      *)
(***************************************************************************)

\* useCaseMapping, in declaration order; every keyword is the sequence of
\* its characters
useCaseMapping == <<
    [useCase |-> "logo",
     keywords |-> <<
       <<"l", "o", "g", "o">>, <<"b", "r", "a", "n", "d">>, <<"i", "c", "o", "n">>,
       <<"s", "y", "m", "b", "o", "l">>, <<"e", "m", "b", "l", "e", "m">>,
       <<"m", "a", "r", "k">>, <<"b", "a", "d", "g", "e">> >>,
     preferredProviders |-> <<"IDEOGRAM", "DALLE">>,
     fallbackProviders |-> <<"LEONARDO", "STABLE">>],
    [useCase |-> "text-heavy",
     keywords |-> <<
       <<"t", "e", "x", "t">>, <<"p", "o", "s", "t", "e", "r">>,
       <<"b", "a", "n", "n", "e", "r">>, <<"s", "i", "g", "n">>, <<"q", "u", "o", "t", "e">>,
       <<"t", "y", "p", "o", "g", "r", "a", "p", "h", "y">>,
       <<"l", "e", "t", "t", "e", "r", "i", "n", "g">>, <<"f", "l", "y", "e", "r">>,
       <<"a", "d", "v", "e", "r", "t", "i", "s", "e", "m", "e", "n", "t">> >>,
     preferredProviders |-> <<"IDEOGRAM">>,
     fallbackProviders |-> <<"DALLE", "GEMINI">>],
    [useCase |-> "photorealistic",
     keywords |-> <<
       <<"r", "e", "a", "l", "i", "s", "t", "i", "c">>, <<"p", "h", "o", "t", "o">>,
       <<"p", "h", "o", "t", "o", "g", "r", "a", "p", "h", "y">>, <<"r", "e", "a", "l">>,
       <<"l", "i", "f", "e", "l", "i", "k", "e">>, <<"p", "o", "r", "t", "r", "a", "i", "t">>,
       <<"h", "e", "a", "d", "s", "h", "o", "t">>,
       <<"p", "r", "o", "f", "e", "s", "s", "i", "o", "n", "a", "l">> >>,
     preferredProviders |-> <<"BFL", "STABLE">>,
     fallbackProviders |-> <<"GEMINI", "DALLE">>],
    [useCase |-> "artistic",
     keywords |-> <<
       <<"a", "r", "t">>, <<"p", "a", "i", "n", "t", "i", "n", "g">>,
       <<"i", "l", "l", "u", "s", "t", "r", "a", "t", "i", "o", "n">>,
       <<"c", "r", "e", "a", "t", "i", "v", "e">>, <<"a", "b", "s", "t", "r", "a", "c", "t">>,
       <<"s", "u", "r", "r", "e", "a", "l">>, <<"f", "a", "n", "t", "a", "s", "y">>,
       <<"i", "m", "a", "g", "i", "n", "a", "t", "i", "v", "e">> >>,
     preferredProviders |-> <<"LEONARDO", "REPLICATE">>,
     fallbackProviders |-> <<"STABLE", "FAL">>],
    [useCase |-> "ui-design",
     keywords |-> <<
       <<"u", "i">>, <<"u", "x">>, <<"i", "n", "t", "e", "r", "f", "a", "c", "e">>,
       <<"a", "p", "p">>, <<"w", "e", "b", "s", "i", "t", "e">>,
       <<"d", "a", "s", "h", "b", "o", "a", "r", "d">>, <<"m", "o", "c", "k", "u", "p">>,
       <<"w", "i", "r", "e", "f", "r", "a", "m", "e">>, <<"d", "e", "s", "i", "g", "n">> >>,
     preferredProviders |-> <<"DALLE", "IDEOGRAM">>,
     fallbackProviders |-> <<"STABLE", "LEONARDO">>],
    [useCase |-> "product",
     keywords |-> <<
       <<"p", "r", "o", "d", "u", "c", "t">>, <<"e", "c", "o", "m", "m", "e", "r", "c", "e">>,
       <<"c", "a", "t", "a", "l", "o", "g">>, <<"i", "t", "e", "m">>,
       <<"m", "e", "r", "c", "h", "a", "n", "d", "i", "s", "e">>,
       <<"p", "a", "c", "k", "a", "g", "i", "n", "g">> >>,
     preferredProviders |-> <<"BFL", "STABLE">>,
     fallbackProviders |-> <<"DALLE", "GEMINI">>],
    [useCase |-> "social-media",
     keywords |-> <<
       <<"i", "n", "s", "t", "a", "g", "r", "a", "m">>, <<"t", "i", "k", "t", "o", "k">>,
       <<"y", "o", "u", "t", "u", "b", "e">>, <<"t", "h", "u", "m", "b", "n", "a", "i", "l">>,
       <<"s", "t", "o", "r", "y">>, <<"p", "o", "s", "t">>, <<"r", "e", "e", "l">>,
       <<"v", "i", "r", "a", "l">> >>,
     preferredProviders |-> <<"LEONARDO", "IDEOGRAM">>,
     fallbackProviders |-> <<"FAL", "CLIPDROP">>],
    [useCase |-> "technical",
     keywords |-> <<
       <<"d", "i", "a", "g", "r", "a", "m">>, <<"c", "h", "a", "r", "t">>,
       <<"g", "r", "a", "p", "h">>, <<"f", "l", "o", "w", "c", "h", "a", "r", "t">>,
       <<"a", "r", "c", "h", "i", "t", "e", "c", "t", "u", "r", "e">>,
       <<"s", "c", "h", "e", "m", "a", "t", "i", "c">>,
       <<"b", "l", "u", "e", "p", "r", "i", "n", "t">> >>,
     preferredProviders |-> <<"DALLE", "GEMINI">>,
     fallbackProviders |-> <<"IDEOGRAM", "STABLE">>],
    [useCase |-> "3d-render",
     keywords |-> <<
       <<"3", "d">>, <<"r", "e", "n", "d", "e", "r">>, <<"c", "g", "i">>,
       <<"t", "h", "r", "e", "e", " ", "d", "i", "m", "e", "n", "s", "i", "o", "n", "a", "l">>,
       <<"m", "o", "d", "e", "l">>, <<"s", "c", "u", "l", "p", "t", "u", "r", "e">> >>,
     preferredProviders |-> <<"STABLE", "BFL">>,
     fallbackProviders |-> <<"DALLE", "LEONARDO">>],
    [useCase |-> "anime",
     keywords |-> <<
       <<"a", "n", "i", "m", "e">>, <<"m", "a", "n", "g", "a">>,
       <<"k", "a", "w", "a", "i", "i">>, <<"c", "h", "i", "b", "i">>,
       <<"j", "a", "p", "a", "n", "e", "s", "e">>, <<"o", "t", "a", "k", "u">> >>,
     preferredProviders |-> <<"LEONARDO", "STABLE">>,
     fallbackProviders |-> <<"REPLICATE", "FAL">>],
    [useCase |-> "carousel",
     keywords |-> <<
       <<"c", "a", "r", "o", "u", "s", "e", "l">>, <<"s", "e", "r", "i", "e", "s">>,
       <<"c", "o", "n", "s", "i", "s", "t", "e", "n", "t">>,
       <<"m", "u", "l", "t", "i", "p", "l", "e">>, <<"s", "e", "q", "u", "e", "n", "c", "e">>,
       <<"s", "l", "i", "d", "e", "s">> >>,
     preferredProviders |-> <<"LEONARDO">>,
     fallbackProviders |-> <<"IDEOGRAM", "STABLE">>],
    [useCase |-> "quick-draft",
     keywords |-> <<
       <<"q", "u", "i", "c", "k">>, <<"d", "r", "a", "f", "t">>, <<"f", "a", "s", "t">>,
       <<"r", "a", "p", "i", "d">>, <<"s", "p", "e", "e", "d">>,
       <<"i", "n", "s", "t", "a", "n", "t">> >>,
     preferredProviders |-> <<"FAL">>,
     fallbackProviders |-> <<"DALLE", "GEMINI">>],
    [useCase |-> "post-process",
     keywords |-> <<
       <<"r", "e", "m", "o", "v", "e", " ", "b", "a", "c", "k", "g", "r", "o", "u", "n", "d">>,
       <<"t", "r", "a", "n", "s", "p", "a", "r", "e", "n", "t">>,
       <<"u", "p", "s", "c", "a", "l", "e">>, <<"e", "n", "h", "a", "n", "c", "e">>,
       <<"c", "l", "e", "a", "n", "u", "p">>, <<"e", "d", "i", "t">> >>,
     preferredProviders |-> <<"CLIPDROP">>,
     fallbackProviders |-> <<"STABLE", "OPENAI">>],
    [useCase |-> "infographic",
     keywords |-> <<
       <<"i", "n", "f", "o", "g", "r", "a", "p", "h", "i", "c">>, <<"d", "a", "t", "a">>,
       <<"v", "i", "s", "u", "a", "l", "i", "z", "a", "t", "i", "o", "n">>,
       <<"s", "t", "a", "t", "s">>, <<"c", "h", "a", "r", "t">>, <<"g", "r", "a", "p", "h">>,
       <<"i", "n", "f", "o", "r", "m", "a", "t", "i", "o", "n">> >>,
     preferredProviders |-> <<"IDEOGRAM", "DALLE">>,
     fallbackProviders |-> <<"GEMINI", "STABLE">>],
    [useCase |-> "game-asset",
     keywords |-> <<
       <<"g", "a", "m", "e">>, <<"a", "s", "s", "e", "t">>, <<"s", "p", "r", "i", "t", "e">>,
       <<"t", "e", "x", "t", "u", "r", "e">>,
       <<"c", "h", "a", "r", "a", "c", "t", "e", "r", " ", "d", "e", "s", "i", "g", "n">>,
       <<"c", "o", "n", "c", "e", "p", "t", " ", "a", "r", "t">> >>,
     preferredProviders |-> <<"LEONARDO", "STABLE">>,
     fallbackProviders |-> <<"FAL", "BFL">>]
>>

\* keywords of the general heuristics
QualityKeywords == {
    <<"h", "i", "g", "h", " ", "q", "u", "a", "l", "i", "t", "y">>,
    <<"p", "r", "o", "f", "e", "s", "s", "i", "o", "n", "a", "l">>,
    <<"4", "k">> }
SpeedKeywords == { <<"q", "u", "i", "c", "k">>, <<"f", "a", "s", "t">>, <<"d", "r", "a", "f", "t">> }
qualityProviders == <<"BFL", "STABLE", "DALLE">>
speedProviders == <<"FAL", "DALLE", "GEMINI">>

\* String.prototype.toLowerCase on the letters
UpperLetters == <<"A", "B", "C", "D", "E", "F", "G", "H", "I", "J", "K", "L", "M",
                  "N", "O", "P", "Q", "R", "S", "T", "U", "V", "W", "X", "Y", "Z">>
LowerLetters == <<"a", "b", "c", "d", "e", "f", "g", "h", "i", "j", "k", "l", "m",
                  "n", "o", "p", "q", "r", "s", "t", "u", "v", "w", "x", "y", "z">>

ToLowerChar(c) ==
    IF \E i \in 1..Len(UpperLetters) : UpperLetters[i] = c
    THEN LowerLetters[CHOOSE i \in 1..Len(UpperLetters) : UpperLetters[i] = c]
    ELSE c

RECURSIVE ToLowerCase(_)
ToLowerCase(str) ==
    IF str = <<>> THEN <<>>
    ELSE <<ToLowerChar(Head(str))>> \o ToLowerCase(Tail(str))

\* String.prototype.includes
Includes(str, sub) ==
    \E i \in 0..(Len(str) - Len(sub)) : SubSeq(str, i + 1, i + Len(sub)) = sub

\* Array.prototype.includes
Has(list, x) == \E i \in 1..Len(list) : list[i] = x

\* the keyword loop of analyzePrompt from keyword k on: the summed lengths
\* and the number of the keywords the prompt contains
RECURSIVE MatchKeywords(_, _, _)
MatchKeywords(lower, keywords, k) ==
    IF k > Len(keywords) THEN [score |-> 0, matchedKeywords |-> 0]
    ELSE LET rest == MatchKeywords(lower, keywords, k + 1) IN
         IF Includes(lower, keywords[k])
         THEN [score |-> rest.score + Len(keywords[k]),
               matchedKeywords |-> rest.matchedKeywords + 1]
         ELSE rest

NoMatch == [useCase |-> 0, score |-> 0]

\* the use-case loop with >= in place of >: the last of several equal
\* scores wins
RECURSIVE AnalyzeFromLastWins(_, _, _)
AnalyzeFromLastWins(lower, i, bestMatch) ==
    IF i > Len(useCaseMapping) THEN bestMatch
    ELSE LET m == MatchKeywords(lower, useCaseMapping[i].keywords, 1) IN
         AnalyzeFromLastWins(lower, i + 1,
            IF m.matchedKeywords > 0
               /\ (bestMatch = NoMatch \/ m.score >= bestMatch.score)
            THEN [useCase |-> i, score |-> m.score]
            ELSE bestMatch)

\* the use-case loop of analyzePrompt from entry i on
RECURSIVE AnalyzeFrom(_, _, _)
AnalyzeFrom(lower, i, bestMatch) ==
    IF i > Len(useCaseMapping) THEN bestMatch
    ELSE LET m == MatchKeywords(lower, useCaseMapping[i].keywords, 1) IN
         AnalyzeFrom(lower, i + 1,
            IF m.matchedKeywords > 0
               /\ (bestMatch = NoMatch \/ m.score > bestMatch.score)
            THEN [useCase |-> i, score |-> m.score]
            ELSE bestMatch)

\* analyzePrompt: the index of the detected use case, 0 for null
analyzePrompt(prompt) == AnalyzeFrom(ToLowerCase(prompt), 1, NoMatch).useCase

\* the first name of `list` that availableProviders includes, "" if none
RECURSIVE FirstAvailable(_, _, _)
FirstAvailable(list, availableProviders, k) ==
    IF k > Len(list) THEN ""
    ELSE IF Has(availableProviders, list[k]) THEN list[k]
    ELSE FirstAvailable(list, availableProviders, k + 1)

\* selectProvider without the prompt analysis: the first available provider
selectProviderDefaultOnly(prompt, availableProviders, explicitProvider) ==
    IF explicitProvider \notin {"", "auto"} /\ Has(availableProviders, explicitProvider)
    THEN explicitProvider
    ELSE IF Len(availableProviders) > 0 THEN availableProviders[1] ELSE ""

\* selectProvider with the fallback list consulted before the preferred one
selectProviderFallbackFirst(prompt, availableProviders, explicitProvider) ==
    LET a == analyzePrompt(prompt)
        pref == IF a = 0 THEN ""
                ELSE FirstAvailable(useCaseMapping[a].preferredProviders, availableProviders, 1)
        fb == IF a = 0 THEN ""
              ELSE FirstAvailable(useCaseMapping[a].fallbackProviders, availableProviders, 1)
    IN IF fb # "" THEN fb ELSE IF pref # "" THEN pref
       ELSE IF Len(availableProviders) > 0 THEN availableProviders[1] ELSE ""

\* selectProvider taking the explicit provider whether available or not
selectProviderUnchecked(prompt, availableProviders, explicitProvider) ==
    IF explicitProvider \notin {"", "auto"} THEN explicitProvider
    ELSE IF Len(availableProviders) > 0 THEN availableProviders[1] ELSE ""

\* selectProvider; "" stands for undefined (availableProviders[0] of an
\* empty list)
selectProvider(prompt, availableProviders, explicitProvider) ==
    LET a == analyzePrompt(prompt)
        lower == ToLowerCase(prompt)
        pref == IF a = 0 THEN ""
                ELSE FirstAvailable(useCaseMapping[a].preferredProviders, availableProviders, 1)
        fb == IF a = 0 THEN ""
              ELSE FirstAvailable(useCaseMapping[a].fallbackProviders, availableProviders, 1)
        quality == IF \E w \in QualityKeywords : Includes(lower, w)
                   THEN FirstAvailable(qualityProviders, availableProviders, 1) ELSE ""
        speed == IF \E w \in SpeedKeywords : Includes(lower, w)
                 THEN FirstAvailable(speedProviders, availableProviders, 1) ELSE ""
    IN IF explicitProvider \notin {"", "auto"} /\ Has(availableProviders, explicitProvider)
       THEN explicitProvider
       ELSE IF pref # "" THEN pref
       ELSE IF fb # "" THEN fb
       ELSE IF quality # "" THEN quality
       ELSE IF speed # "" THEN speed
       ELSE IF Len(availableProviders) > 0 THEN availableProviders[1]
       ELSE ""

\* getConfiguredProviders walks the names in this order
allNames == <<"MOCK", "OPENAI", "STABILITY", "REPLICATE", "GEMINI", "IDEOGRAM",
              "BFL", "LEONARDO", "FAL", "CLIPDROP">>

\* the names of `set`, in the order of allNames
InOrder(set) == SelectSeq(allNames, LAMBDA n : n \in set)

ProviderNames == {allNames[i] : i \in 1..Len(allNames)}

\* the lists selectProvider is called with: configured providers, possibly
\* reduced to those that fit the requested dimensions
SelProviders == ProviderNames \ {"STABILITY", "CLIPDROP"}
AvailableLists == {InOrder(set) : set \in SUBSET SelProviders} \ {<<>>}

\* prompts explored, as character sequences
Prompts == {
    \* "logo with text 'Acme'"
    <<"l", "o", "g", "o", " ", "w", "i", "t", "h", " ", "t", "e", "x", "t", " ", "'", "A", "c", "m", "e", "'">>,
    \* "quick draft sketch"
    <<"q", "u", "i", "c", "k", " ", "d", "r", "a", "f", "t", " ", "s", "k", "e", "t", "c", "h">>,
    \* "Fantasy Art"
    <<"F", "a", "n", "t", "a", "s", "y", " ", "A", "r", "t">>,
    \* "viral reel"
    <<"v", "i", "r", "a", "l", " ", "r", "e", "e", "l">>,
    \* "a red cat"
    <<"a", " ", "r", "e", "d", " ", "c", "a", "t">>,
    \* "4k cat"
    <<"4", "k", " ", "c", "a", "t">>,
    \* "fast cat"
    <<"f", "a", "s", "t", " ", "c", "a", "t">>,
    \* "chart"
    <<"c", "h", "a", "r", "t">>,
    \* "poster design"
    <<"p", "o", "s", "t", "e", "r", " ", "d", "e", "s", "i", "g", "n">>,
    \* "professional photo"
    <<"p", "r", "o", "f", "e", "s", "s", "i", "o", "n", "a", "l", " ", "p", "h", "o", "t", "o">>
}

ExplicitChoices == {"", "auto", "FAL", "DALLE"}

InitSel ==
    /\ IdlePoll /\ IdleRetry /\ IdleRate /\ IdleGen /\ IdleOrch /\ IdleConc /\ IdleHttp /\ IdleReg /\ IdleTerm /\ IdleTimer /\ IdleEdit
    /\ sPrompt \in Prompts
    /\ sAvailable \in AvailableLists
    /\ sExplicit \in ExplicitChoices
    /\ sSelected = ""
    /\ sAnalysis = 0
    /\ sPc = "call"

SelectCall ==
    /\ sPc = "call"
    /\ sSelected' = selectProvider(sPrompt, sAvailable, sExplicit)
    /\ sAnalysis' = analyzePrompt(sPrompt)
    /\ sPc' = "done"
    /\ UNCHANGED <<sPrompt, sAvailable, sExplicit>>

NextSel == SelectCall /\ UNCHANGED <<pollVars, retryVars, rateVars, genVars, orchVars, concVars, httpVars, regVars, termVars, timerVars, editVars>>

SpecSel == InitSel /\ [][NextSel]_vars

\* C36: for every prompt, every non-empty list of available providers and
\* every explicit provider argument, available or not, selectProvider
\* returns a member of the available list.
C36_SelectionInsideAvailable ==
    sPc = "done" => \E k \in 1..Len(sAvailable) : sAvailable[k] = sSelected

\* C36 witness: FAL was asked for explicitly with the prompt "quick draft
\* sketch", whose category also names it, but it is not available; an
\* available provider came back
C36_Witness ==
    /\ sPc = "done" /\ sExplicit = "FAL"
    /\ Len(sPrompt) = 18 /\ sPrompt[1] = "q"
    /\ \A k \in 1..Len(sAvailable) : sAvailable[k] # "FAL"
    /\ \E k \in 1..Len(sAvailable) : sAvailable[k] = sSelected

\* what selectProvider hands to its caller, read as a candidate list
Candidates == IF sSelected = "" THEN <<>> ELSE <<sSelected>>

\* the call detected a use case and no explicit provider overrode it
DetectedCase ==
    /\ sPc = "done" /\ sExplicit \in {"", "auto"}
    /\ analyzePrompt(sPrompt) # 0

OrchProviders == {"MOCK", "IDEOGRAM", "BFL", "FAL", "OPENAI", "REPLICATE"}

\* getCapabilities().maxWidth, equal to maxHeight for each of them
maxWidth(name) ==
    CASE name = "MOCK" -> 256
      [] name = "OPENAI" -> 1792
      [] name \in {"FAL", "STABILITY"} -> 1536
      [] name = "GEMINI" -> 3072
      [] OTHER -> 2048

\* name.toUpperCase() for the names explored
ToUpperName(name) == IF name = "bfl" THEN "BFL" ELSE name

\* Config.getProvider: the provider's name, "" for undefined
getProvider(name) ==
    IF ToUpperName(name) \in ProviderNames THEN ToUpperName(name) ELSE ""

\* Config.getConfiguredProviders
getConfiguredProviders(configured) == InOrder(configured)

fallbackChain == <<"IDEOGRAM", "BFL", "LEONARDO", "FAL", "OPENAI", "STABILITY",
                   "REPLICATE", "GEMINI", "MOCK">>

Resolved(name) == [ok |-> TRUE, name |-> name]
\* a thrown ProviderError with isRetryable = false
NotResolved == [ok |-> FALSE, name |-> ""]

\* a getDefaultProvider that walks the providers in the order of allNames
getDefaultProviderAllNames(configured, envDefault, disableFallback) ==
    IF envDefault # "" /\ getProvider(envDefault) \in configured
    THEN Resolved(getProvider(envDefault))
    ELSE IF disableFallback THEN NotResolved
    ELSE LET first == FirstAvailable(allNames, InOrder(configured), 1) IN
         Resolved(IF first # "" THEN first ELSE "MOCK")

\* Config.getDefaultProvider
getDefaultProvider(configured, envDefault, disableFallback) ==
    IF envDefault # "" /\ getProvider(envDefault) \in configured
    THEN Resolved(getProvider(envDefault))
    ELSE IF disableFallback THEN NotResolved
    ELSE LET first == FirstAvailable(fallbackChain, InOrder(configured), 1) IN
         Resolved(IF first # "" THEN first ELSE "MOCK")

\* getProviderWithFallback taking the fallback chain whatever
\* DISABLE_FALLBACK says
getProviderWithFallbackAnyway(requestedName, prompt, configured, envDefault, disableFallback) ==
    IF requestedName \notin {"", "auto"} /\ getProvider(requestedName) \in configured
    THEN Resolved(getProvider(requestedName))
    ELSE getDefaultProvider(configured, envDefault, FALSE)

\* Config.getProviderWithFallback
getProviderWithFallback(requestedName, prompt, configured, envDefault, disableFallback) ==
    LET selectedName ==
            IF requestedName = "auto" /\ Len(prompt) > 0
            THEN selectProvider(prompt, getConfiguredProviders(configured), "")
            ELSE ""
    IN IF selectedName # "" /\ getProvider(selectedName) \in configured
       THEN Resolved(getProvider(selectedName))
       ELSE IF requestedName \notin {"", "auto"}
       THEN IF getProvider(requestedName) \in configured
            THEN Resolved(getProvider(requestedName))
            ELSE IF disableFallback THEN NotResolved
            ELSE getDefaultProvider(configured, envDefault, disableFallback)
       ELSE getDefaultProvider(configured, envDefault, disableFallback)

\* GenerateInputSchema.parse accepts the arguments
SchemaAccepts(req) ==
    /\ Len(req.prompt) >= 1
    /\ req.size = 0 \/ (64 <= req.size /\ req.size <= 4096)

\* the dimension test of the handler; size 0 stands for no width/height
FitsDimensions(name, size) == ~(size # 0 /\ size > maxWidth(name))

\* the provider resolution of the image.generate handler: the provider to
\* call, or the error thrown before any provider is called
ResolveProvider(req, configured, envDefault, disableFallback) ==
    IF req.provider \in {"", "auto"}
    THEN LET compatibleProviders ==
                 SelectSeq(getConfiguredProviders(configured),
                           LAMBDA n : FitsDimensions(n, req.size))
             selectedName == selectProvider(req.prompt, compatibleProviders, "")
         IN IF Len(compatibleProviders) = 0 THEN NotResolved
            ELSE IF selectedName # "" THEN Resolved(getProvider(selectedName))
            ELSE getProviderWithFallback("", req.prompt, configured, envDefault,
                                         disableFallback)
    ELSE LET r == getProviderWithFallback(req.provider, req.prompt, configured,
                                          envDefault, disableFallback)
         IN IF r.ok /\ ~FitsDimensions(r.name, req.size) THEN NotResolved ELSE r

\* the requests explored
RequestedNames == {"", "auto", "BFL", "bfl", "IDEOGRAM", "MOCK", "DALLE"}
RequestedSizes == {0, 32, 256, 1024, 2048}
OrchPrompts == {
    <<>>,
    <<"v", "i", "r", "a", "l", " ", "r", "e", "e", "l">>,
    <<"a", " ", "r", "e", "d", " ", "c", "a", "t">> }
DefaultEnvChoices == {"", "FAL", "DALLE"}

\* how a provider's generate ends, as the handler sees it: a result, a
\* ProviderError with isRetryable true, or one with isRetryable false
GenerateOutcomes == {"ok", "retryable", "permanent"}

Response(name, outcome) ==
    [kind |-> IF outcome = "ok" THEN "result" ELSE "error",
     prov |-> name, retryable |-> outcome = "retryable"]

\* an error thrown by the handler itself before any provider is called
HandlerError == [kind |-> "error", prov |-> "", retryable |-> FALSE]

InitOrch ==
    /\ IdlePoll /\ IdleRetry /\ IdleRate /\ IdleGen /\ IdleSel /\ IdleConc /\ IdleHttp /\ IdleReg /\ IdleTerm /\ IdleTimer /\ IdleEdit
    /\ oConfigured \in {set \in SUBSET OrchProviders : "MOCK" \in set}
    /\ oDisableFallback \in BOOLEAN
    /\ oDefaultEnv \in DefaultEnvChoices
    /\ oReq = NoRequest
    /\ oPc = "idle"
    /\ oHead = ""
    /\ oFallback = ""
    /\ oHeadOutcome = ""
    /\ oCalls = <<>>
    /\ oOut = NoResponse

\* the handler up to its first await of a provider: parse the arguments and
\* resolve the provider
HandleGenerate(req) ==
    /\ oPc = "idle"
    /\ oReq' = req
    /\ LET r == ResolveProvider(req, oConfigured, oDefaultEnv, oDisableFallback) IN
       IF SchemaAccepts(req) /\ r.ok
       THEN /\ oHead' = r.name
            /\ oPc' = "head"
            /\ oOut' = oOut
       ELSE /\ oHead' = oHead
            /\ oPc' = "done"
            /\ oOut' = HandlerError
    /\ UNCHANGED <<oConfigured, oDisableFallback, oDefaultEnv, oFallback,
                   oHeadOutcome, oCalls>>

\* a handler that turns to the fallback after any error
ShouldFallbackAnyError(outcome, disableFallback, fallbackName, headName) ==
    outcome # "ok" /\ ~disableFallback /\ fallbackName # headName

\* a handler that turns to the default provider even when it is the one
\* that failed
ShouldFallbackSameName(outcome, disableFallback, fallbackName, headName) ==
    outcome = "retryable" /\ ~disableFallback

\* the test of the handler's catch: a retryable ProviderError, fallback not
\* disabled, and a default provider other than the one that failed
ShouldFallback(outcome, disableFallback, fallbackName, headName) ==
    outcome = "retryable" /\ ~disableFallback /\ fallbackName # headName

\* provider.generate(input) settles; on a retryable error with fallback
\* enabled the handler turns to Config.getDefaultProvider()
HeadGenerate(outcome) ==
    /\ oPc = "head"
    /\ oCalls' = Append(oCalls, oHead)
    /\ oHeadOutcome' = outcome
    /\ LET fallback == getDefaultProvider(oConfigured, oDefaultEnv, oDisableFallback) IN
       IF ShouldFallback(outcome, oDisableFallback, fallback.name, oHead)
       THEN /\ oFallback' = fallback.name
            /\ oPc' = "fallback"
            /\ oOut' = oOut
       ELSE /\ oFallback' = oFallback
            /\ oPc' = "done"
            /\ oOut' = Response(oHead, outcome)
    /\ UNCHANGED <<oConfigured, oDisableFallback, oDefaultEnv, oReq, oHead>>

\* fallback.generate(input) settles: its result or error ends the request
FallbackGenerate(outcome) ==
    /\ oPc = "fallback"
    /\ oCalls' = Append(oCalls, oFallback)
    /\ oPc' = "done"
    /\ oOut' = Response(oFallback, outcome)
    /\ UNCHANGED <<oConfigured, oDisableFallback, oDefaultEnv, oReq, oHead,
                   oFallback, oHeadOutcome>>

NextOrch ==
    \/ /\ \E name \in RequestedNames, prompt \in OrchPrompts, size \in RequestedSizes :
             HandleGenerate([provider |-> name, prompt |-> prompt, size |-> size])
       /\ UNCHANGED <<pollVars, retryVars, rateVars, genVars, selVars, concVars, httpVars, regVars, termVars, timerVars, editVars>>
    \/ /\ \E outcome \in GenerateOutcomes : HeadGenerate(outcome)
       /\ UNCHANGED <<pollVars, retryVars, rateVars, genVars, selVars, concVars, httpVars, regVars, termVars, timerVars, editVars>>
    \/ /\ \E outcome \in GenerateOutcomes : FallbackGenerate(outcome)
       /\ UNCHANGED <<pollVars, retryVars, rateVars, genVars, selVars, concVars, httpVars, regVars, termVars, timerVars, editVars>>

SpecOrch == InitOrch /\ [][NextOrch]_vars

\* C5: when the head provider's generate fails with a retryable error, then
\* with fallback enabled (and another provider configured) exactly one
\* generate call is made to another provider and its outcome is what the
\* request returns; with DISABLE_FALLBACK=true no other provider is called
\* and the request fails with the head provider's error.
C5_FallbackOnFailure ==
    (oPc = "done" /\ oHeadOutcome = "retryable") =>
        IF oDisableFallback
        THEN oCalls = <<oHead>> /\ oOut = Response(oHead, "retryable")
        ELSE Cardinality(oConfigured) >= 2 =>
               /\ Len(oCalls) = 2 /\ oCalls[1] = oHead /\ oCalls[2] # oHead
               /\ oOut.prov = oCalls[2]

\* C6: with DISABLE_FALLBACK=true and an explicitly named provider P, every
\* generate call of the request goes to P; when P is unknown or not
\* configured the request fails with a non-retryable error and no generate
\* call at all; when P fails, retryably or not, no other provider is called.
C6_ExplicitOnly ==
    (oDisableFallback /\ oReq.provider \notin {"", "auto"}) =>
        /\ \A i \in 1..Len(oCalls) : oCalls[i] = ToUpperName(oReq.provider)
        /\ Len(oCalls) <= 1
        /\ (oPc = "done" /\ ToUpperName(oReq.provider) \notin oConfigured)
              => (oCalls = <<>> /\ oOut.kind = "error" /\ ~oOut.retryable)
        /\ (oPc = "done" /\ oHeadOutcome \in {"retryable", "permanent"})
              => oOut = Response(ToUpperName(oReq.provider), oHeadOutcome)

\* C6 witness: fallback disabled, an explicitly named, configured provider
\* was called, failed retryably, and the request ended with its error.
C6_Witness ==
    /\ oDisableFallback /\ oReq.provider = "bfl" /\ oPc = "done"
    /\ oHeadOutcome = "retryable" /\ oCalls = <<"BFL">>
    /\ Cardinality(oConfigured) >= 3

(***************************************************************************)
(* The provider registry                                                   *)
(***************************************************************************)

\* keys the map could hold: the provider names and two that are none
RegNames == ProviderNames \cup {"DALLE", ""}
\* names getProvider is called with
RegLookups == {"BFL", "bfl", "MOCK", "IDEOGRAM", "DALLE"}
\* environments explored
RegConfigured == {{"MOCK"}, {"MOCK", "FAL"}, {"MOCK", "BFL", "OPENAI"},
                  {"MOCK", "LEONARDO", "FAL"}, {"MOCK", "GEMINI", "REPLICATE"},
                  {"MOCK", "STABILITY", "OPENAI"}, {"MOCK", "CLIPDROP"}}
\* values of DEFAULT_PROVIDER explored
RegDefaultEnv == {"", "FAL", "bfl", "LEONARDO", "DALLE"}

\* a createProvider that constructs on every call
CreateProviderNoMemo(reg, name) ==
    IF name \notin ProviderNames THEN reg
    ELSE [providers |-> [reg.providers EXCEPT ![name] = reg.built[name] + 1],
          built |-> [reg.built EXCEPT ![name] = @ + 1]]

\* Config.createProvider: the instance held for the name if there is one,
\* else a new instance for a known name, stored in the map; the n-th
\* instance constructed for a name is numbered n
CreateProvider(reg, name) ==
    IF name \in DOMAIN reg.providers /\ reg.providers[name] # 0 THEN reg
    ELSE IF name \notin ProviderNames THEN reg
    ELSE [providers |-> [reg.providers EXCEPT ![name] = reg.built[name] + 1],
          built |-> [reg.built EXCEPT ![name] = @ + 1]]

\* createProvider for each name of a list, in order
RECURSIVE CreateAll(_, _)
CreateAll(reg, names) ==
    IF names = <<>> THEN reg
    ELSE CreateAll(CreateProvider(reg, Head(names)), Tail(names))

\* the names of the fallback chain up to the first configured one
RECURSIVE ChainPrefix(_, _)
ChainPrefix(chain, configured) ==
    IF chain = <<>> THEN <<"MOCK">>
    ELSE IF Head(chain) \in configured THEN <<Head(chain)>>
    ELSE <<Head(chain)>> \o ChainPrefix(Tail(chain), configured)

\* the createProvider calls of getDefaultProvider, in order
DefaultCreates(configured, envDefault, disableFallback) ==
    LET env == IF envDefault # "" THEN <<ToUpperName(envDefault)>> ELSE <<>> IN
    IF envDefault # "" /\ getProvider(envDefault) \in configured THEN env
    ELSE IF disableFallback THEN env
    ELSE env \o ChainPrefix(fallbackChain, configured)

Registry == [providers |-> regProviders, built |-> regBuilt]

SetRegistry(reg) == regProviders' = reg.providers /\ regBuilt' = reg.built

\* Config.getProvider(name)
RegGetProvider(name) ==
    LET reg == CreateProvider(Registry, ToUpperName(name)) IN
    /\ SetRegistry(reg)
    /\ regLast' = [name |-> name, inst |-> reg.providers[ToUpperName(name)]]
    /\ UNCHANGED regDefault

\* Config.getAllProviders()
RegGetAllProviders ==
    SetRegistry(CreateAll(Registry, allNames)) /\ UNCHANGED <<regLast, regDefault>>

\* Config.getConfiguredProviders()
RegGetConfiguredProviders ==
    SetRegistry(CreateAll(Registry, allNames)) /\ UNCHANGED <<regLast, regDefault>>

\* Config.getProviderStatus()
RegGetProviderStatus ==
    SetRegistry(CreateAll(Registry, allNames)) /\ UNCHANGED <<regLast, regDefault>>

\* Config.getDefaultProvider()
RegGetDefaultProvider ==
    /\ SetRegistry(CreateAll(Registry,
                             DefaultCreates(oConfigured, oDefaultEnv, oDisableFallback)))
    /\ regDefault' = getDefaultProvider(oConfigured, oDefaultEnv, oDisableFallback)
    /\ UNCHANGED regLast

NoLookup == [name |-> "none", inst |-> 0]
\* getDefaultProvider has not been called
NoDefault == [ok |-> FALSE, name |-> "none"]

InitReg ==
    /\ IdlePoll /\ IdleRetry /\ IdleRate /\ IdleGen /\ IdleSel /\ IdleConc /\ IdleHttp /\ IdleTerm /\ IdleTimer /\ IdleEdit
    /\ oConfigured \in RegConfigured
    /\ oDisableFallback \in BOOLEAN
    /\ oDefaultEnv \in RegDefaultEnv
    /\ oReq = NoRequest /\ oPc = "idle" /\ oHead = "" /\ oFallback = ""
    /\ oHeadOutcome = "" /\ oCalls = <<>> /\ oOut = NoResponse
    /\ regDefault = NoDefault
    /\ regProviders = [n \in RegNames |-> 0]
    /\ regBuilt = [n \in RegNames |-> 0]
    /\ regLast = NoLookup

NextReg ==
    \/ /\ \E name \in RegLookups : RegGetProvider(name)
       /\ UNCHANGED <<pollVars, retryVars, rateVars, genVars, selVars, orchVars,
                      concVars, httpVars, termVars, timerVars, editVars>>
    \/ RegGetAllProviders /\ UNCHANGED <<pollVars, retryVars, rateVars, genVars,
                                         selVars, orchVars, concVars, httpVars, termVars, timerVars, editVars>>
    \/ RegGetConfiguredProviders /\ UNCHANGED <<pollVars, retryVars, rateVars, genVars,
                                                selVars, orchVars, concVars, httpVars, termVars, timerVars, editVars>>
    \/ RegGetDefaultProvider /\ UNCHANGED <<pollVars, retryVars, rateVars, genVars,
                                            selVars, orchVars, concVars, httpVars, termVars, timerVars, editVars>>
    \/ RegGetProviderStatus /\ UNCHANGED <<pollVars, retryVars, rateVars, genVars,
                                           selVars, orchVars, concVars, httpVars, termVars, timerVars, editVars>>

SpecReg == InitReg /\ [][NextReg]_vars

\* C25: over any sequence of getProvider, getAllProviders,
\* getConfiguredProviders, getDefaultProvider and getProviderStatus calls,
\* each name is constructed at most once and every lookup of it returns
\* that one instance; a lookup of an unknown name returns nothing and adds
\* nothing to the registry.
C25_RegistryMemoized ==
    /\ \A n \in RegNames :
          /\ regBuilt[n] <= 1
          /\ regProviders[n] = regBuilt[n]
          /\ n \notin ProviderNames => regProviders[n] = 0
    /\ regLast # NoLookup =>
          regLast.inst = IF ToUpperName(regLast.name) \in ProviderNames THEN 1 ELSE 0

\* C25 witness: every provider has been constructed by a bulk call and a
\* later lookup in lower case got the first instance
C25_Witness ==
    /\ \A n \in ProviderNames : regBuilt[n] = 1
    /\ regLast = [name |-> "bfl", inst |-> 1]

C18_AggregatedFailure ==
    (oPc = "done" /\ oOut.kind = "error")
        => \A i \in 1..Len(oCalls) : oOut.prov = oCalls[i]

\* C23: when the arguments fail validation, when no provider can be
\* resolved, or when the head provider fails with a non-retryable error,
\* the request fails at once with that error and no other provider is
\* invoked, with fallback enabled or not.
C23_PermanentNoFallback ==
    /\ (oPc = "done" /\ ~SchemaAccepts(oReq)) => (oCalls = <<>> /\ oOut = HandlerError)
    /\ (oPc = "done" /\ oHead = "") => (oCalls = <<>> /\ oOut = HandlerError)
    /\ oHeadOutcome = "permanent"
          => (oPc = "done" /\ oCalls = <<oHead>> /\ oOut = Response(oHead, "permanent"))

\* C23 witness: fallback is enabled and another provider stands ready as
\* the default, yet the head's non-retryable error ends the request
C23_Witness ==
    /\ oPc = "done" /\ oHeadOutcome = "permanent" /\ ~oDisableFallback
    /\ getDefaultProvider(oConfigured, oDefaultEnv, oDisableFallback).name # oHead
    /\ oCalls = <<oHead>> /\ oOut.kind = "error" /\ ~oOut.retryable

\* the configured providers that accept the requested dimensions
CompatibleProviders ==
    SelectSeq(getConfiguredProviders(oConfigured),
              LAMBDA n : FitsDimensions(n, oReq.size))

\* C19: every provider whose generate is invoked for a request, the head
\* and the fallback alike, accepts the requested width and height; in auto
\* mode, when no configured provider accepts them, the request fails with
\* the handler's own error and no provider is invoked.
C19_DimensionCompatibility ==
    /\ \A i \in 1..Len(oCalls) : FitsDimensions(oCalls[i], oReq.size)
    /\ (oPc # "idle" /\ oReq.provider \in {"", "auto"} /\ SchemaAccepts(oReq)
           /\ Len(CompatibleProviders) = 0)
          => (oPc = "done" /\ oCalls = <<>> /\ oOut = HandlerError)

(***************************************************************************)
(* Prompt classification                                                   *)
(***************************************************************************)

RECURSIVE SumLengths(_, _)
SumLengths(keywords, idx) ==
    IF idx = {} THEN 0
    ELSE LET k == CHOOSE x \in idx : TRUE IN
         Len(keywords[k]) + SumLengths(keywords, idx \ {k})

\* the score of category i for a prompt: the summed lengths of its keywords
\* that occur in the lower-cased prompt
CategoryScore(prompt, i) ==
    LET keywords == useCaseMapping[i].keywords IN
    SumLengths(keywords,
               {k \in 1..Len(keywords) : Includes(ToLowerCase(prompt), keywords[k])})

Categories == 1..Len(useCaseMapping)

\* the scores of the categories i, i+1, ... for a prompt, as a sequence
RECURSIVE ScoresFrom(_, _)
ScoresFrom(prompt, i) ==
    IF i > Len(useCaseMapping) THEN <<>>
    ELSE <<CategoryScore(prompt, i)>> \o ScoresFrom(prompt, i + 1)

CategoryScores(prompt) == ScoresFrom(prompt, 1)

\* `best` is the category of highest score in `score`, the first of several
\* with that score, and 0 exactly when every score is 0
HighestFirstDeclared(score, best) ==
    /\ best = 0 <=> \A i \in Categories : score[i] = 0
    /\ best # 0 =>
          /\ best \in Categories
          /\ \A i \in Categories : score[i] <= score[best]
          /\ \A i \in 1..(best - 1) : score[i] < score[best]

\* `best` shares its score with a category declared after it
TiedWithLater(score, best) ==
    best # 0 /\ \E i \in Categories : i > best /\ score[i] = score[best]

\* C11: analyzePrompt returns the category with the highest score, the
\* first declared among several with that score, and no category exactly
\* when no keyword of any category occurs in the lower-cased prompt.
C11_HighestScoreFirstDeclared ==
    sPc = "done" => HighestFirstDeclared(CategoryScores(sPrompt), sAnalysis)

\* C11 witness: two categories share the highest score and the one declared
\* first was returned.
C11_Witness ==
    sPc = "done" /\ TiedWithLater(CategoryScores(sPrompt), sAnalysis)

(***************************************************************************)
(* Selection scenarios                                                     *)
(***************************************************************************)

\* "logo with text 'Acme'"
LogoAcmePrompt == <<"l", "o", "g", "o", " ", "w", "i", "t", "h", " ", "t", "e", "x", "t", " ", "'", "A", "c", "m", "e", "'">>

\* "quick draft sketch"
QuickDraftPrompt == <<"q", "u", "i", "c", "k", " ", "d", "r", "a", "f", "t", " ", "s", "k", "e", "t", "c", "h">>

\* the call ran in auto mode: no explicit provider
AutoMode == sPc = "done" /\ sExplicit \in {"", "auto"}

\* the name of the detected use case, "" for none
DetectedUseCase == IF sAnalysis = 0 THEN "" ELSE useCaseMapping[sAnalysis].useCase

\* C12 as stated: for "logo with text 'Acme'" in auto mode with IDEOGRAM
\* and a generic provider available, the use case detected is "text-heavy"
\* and IDEOGRAM is selected.
C12_TextHeavyIdeogram ==
    (AutoMode /\ sPrompt = LogoAcmePrompt /\ Has(sAvailable, "IDEOGRAM"))
    => (DetectedUseCase = "text-heavy" /\ sSelected = "IDEOGRAM")

\* C12 amended: for "logo with text 'Acme'" in auto mode with IDEOGRAM and
\* a generic provider available, the use case detected is "logo" ("logo" and
\* "text-heavy" both score 4 and "logo" is declared first) and IDEOGRAM is
\* selected.
C12_LogoIdeogram ==
    (AutoMode /\ sPrompt = LogoAcmePrompt /\ Has(sAvailable, "IDEOGRAM"))
    => /\ DetectedUseCase = "logo"
       /\ CategoryScore(sPrompt, 1) = CategoryScore(sPrompt, 2)
       /\ useCaseMapping[2].useCase = "text-heavy"
       /\ sSelected = "IDEOGRAM"

\* C12 witness: the scenario with IDEOGRAM and generic providers, one of
\* them earlier in the list, and IDEOGRAM selected.
C12_Witness ==
    /\ AutoMode /\ sPrompt = LogoAcmePrompt
    /\ sAvailable = <<"MOCK", "OPENAI", "IDEOGRAM">>
    /\ sSelected = "IDEOGRAM"

DefaultIsFailedHead ==
    /\ oPc = "done" /\ oHeadOutcome = "retryable" /\ ~oDisableFallback
    /\ getDefaultProvider(oConfigured, oDefaultEnv, oDisableFallback).name = oHead

RetryingProviders == {"BFL", "LEONARDO", "IDEOGRAM", "FAL"}

\* attempts a provider's generate may make for one call
AttemptBudget(name) == IF name \in RetryingProviders THEN GenRetryBudget ELSE 1

\* the provider whose generate is running
Running == IF oPc = "head" THEN oHead ELSE oFallback

\* the handler up to provider.generate(input)
TermHandle(req) ==
    /\ HandleGenerate(req)
    /\ tPhase' = IF oPc' = "head" THEN "attempt" ELSE "idle"
    /\ tAttempt' = IF oPc' = "head" THEN 1 ELSE 0
    /\ tInv' = [n \in ProviderNames |-> 0]

\* one backend exchange of the running generate, answered with `class`: the
\* executor retries, or generate settles and the handler goes on
TermAttempt(class) ==
    LET d == RetryDecision(class, tAttempt, AttemptBudget(Running))
        outcome == IF d = "return" THEN "ok"
                   ELSE IF d = "exhausted" THEN "retryable" ELSE "permanent" IN
    /\ oPc \in {"head", "fallback"} /\ tPhase = "attempt"
    /\ tInv' = [tInv EXCEPT ![Running] = @ + 1]
    /\ IF d = "retry"
       THEN /\ tPhase' = "backoff"
            /\ tAttempt' = tAttempt
            /\ UNCHANGED orchVars
       ELSE /\ IF oPc = "head" THEN HeadGenerate(outcome) ELSE FallbackGenerate(outcome)
            /\ tPhase' = IF oPc' = "fallback" THEN "attempt" ELSE "idle"
            /\ tAttempt' = IF oPc' = "fallback" THEN 1 ELSE 0

\* the executor's delay before the next attempt
TermBackoff ==
    /\ tPhase = "backoff"
    /\ tPhase' = "attempt"
    /\ tAttempt' = tAttempt + 1
    /\ UNCHANGED <<tInv, orchVars>>

InitTerm ==
    /\ IdlePoll /\ IdleRetry /\ IdleRate /\ IdleGen /\ IdleSel /\ IdleConc /\ IdleHttp
    /\ IdleReg /\ IdleTimer /\ IdleEdit
    /\ oConfigured \in {set \in SUBSET OrchProviders : "MOCK" \in set}
    /\ oDisableFallback \in BOOLEAN
    /\ oDefaultEnv \in DefaultEnvChoices
    /\ oReq = NoRequest /\ oPc = "idle" /\ oHead = "" /\ oFallback = ""
    /\ oHeadOutcome = "" /\ oCalls = <<>> /\ oOut = NoResponse
    /\ tPhase = "idle" /\ tAttempt = 0
    /\ tInv = [n \in ProviderNames |-> 0]

\* the steps of a request that is under way, as steps of the whole state
AttemptStep ==
    /\ \E class \in GenerateOutcomes : TermAttempt(class)
    /\ UNCHANGED <<pollVars, retryVars, rateVars, genVars, selVars, concVars, httpVars, regVars, timerVars, editVars>>

BackoffStep ==
    TermBackoff /\ UNCHANGED <<pollVars, retryVars, rateVars, genVars, selVars, concVars, httpVars, regVars, timerVars, editVars>>

NextTerm ==
    \/ /\ \E name \in RequestedNames, prompt \in OrchPrompts, size \in RequestedSizes :
             TermHandle([provider |-> name, prompt |-> prompt, size |-> size])
       /\ UNCHANGED <<pollVars, retryVars, rateVars, genVars, selVars, concVars, httpVars, regVars, timerVars, editVars>>
    \/ AttemptStep
    \/ BackoffStep

SpecTerm == InitTerm /\ [][NextTerm]_vars

\* every backend exchange is answered and every delay ends
SpecTermFair ==
    /\ InitTerm /\ [][NextTerm]_vars
    /\ WF_vars(AttemptStep)
    /\ WF_vars(BackoffStep)

RECURSIVE SumInv(_, _)
SumInv(f, names) ==
    IF names = {} THEN 0
    ELSE LET n == CHOOSE x \in names : TRUE IN f[n] + SumInv(f, names \ {n})

\* the providers the handler has turned to for the request
TurnedTo == {oHead, oFallback} \ {""}

\* C31: with every backend call answered, a request that reached a provider
\* ends in exactly one outcome, a result or an error, which then stays; no
\* provider is invoked more often than the retry budget allows, and the
\* invocations of a request number at most the budget times the providers
\* the handler turned to.
C31_Termination ==
    /\ (oPc \in {"head", "fallback"}) ~> (oPc = "done")
    /\ [](oPc = "done" => oOut.kind \in {"result", "error"})
    /\ [](oPc # "done" => oOut = NoResponse)
    /\ [](\A n \in ProviderNames : tInv[n] <= GenRetryBudget)
    /\ [](SumInv(tInv, ProviderNames) <= GenRetryBudget * Cardinality(TurnedTo))

\* C31 witness: the head spent its whole budget, the request went on to the
\* fallback, which spent its budget too, and ended in an error
C31_Witness ==
    /\ oPc = "done" /\ oOut.kind = "error"
    /\ oHead = "BFL" /\ oFallback = "IDEOGRAM"
    /\ tInv["BFL"] = GenRetryBudget /\ tInv["IDEOGRAM"] = GenRetryBudget

\* min(base * 1.5^i, cap) cut to whole ms
Schedule(base, cap, i) ==
    IF ReachedCap(base, cap, i) THEN cap ELSE (base * Pow(3, i)) \div Pow(2, i)

PollBase == IF pProv = "BFL" THEN BFLInitialDelay ELSE FalBaseDelay
PollCap == IF pProv = "BFL" THEN BFLMaxDelay ELSE FalMaxDelay
PollJitter == IF pProv = "BFL" THEN BFLJitterBound ELSE FalJitterBound

\* the sleep of iteration pI lasts min(base * 1.5^pI, cap) plus a jitter
\* below the bound
SleepOnSchedule ==
    pElapsed' # pElapsed =>
        /\ pElapsed' - pElapsed - Schedule(PollBase, PollCap, pI)
              \in 0 .. PollJitter - 1
        /\ pElapsed' - pElapsed < PollCap + PollJitter

\* C34: the delay before poll i + 1 is min(baseDelay * 1.5^i, maxDelay) plus
\* a jitter from 0 up to the jitter bound; the part without jitter does not
\* decrease with i and never exceeds maxDelay, so no delay reaches maxDelay
\* plus the jitter bound.
C34_BackoffSchedule ==
    /\ [][SleepOnSchedule]_vars
    /\ [](pProv \in {"BFL", "FAL"} =>
            /\ BackoffDelay(PollBase, PollCap, pI) <= PollCap
            /\ BackoffDelay(PollBase, PollCap, pI)
                  <= BackoffDelay(PollBase, PollCap, pI + 1))

\* C34 witness: BFL's loop slept eight times without jitter, the last two
\* sleeps at the cap of 10 s
C34_Witness ==
    /\ pProv = "BFL" /\ pPc = "check" /\ pI = 7
    /\ pElapsed = 1000 + 1500 + 2250 + 3375 + 5062 + 7593 + 10000 + 10000

(***************************************************************************)
(* Timeout timers of a provider call                                       *)
(***************************************************************************)

\* status checks of Replicate's poll loop explored
MaxTimedChecks == 3

Call(prov, op) == [prov |-> prov, op |-> op]

\* the calls whose exchange ends in `finally { cleanupController(controller) }`
CleaningCalls ==
    {Call("BFL", "generate"), Call("BFL", "edit"),
     Call("LEONARDO", "generate"), Call("LEONARDO", "edit"),
     Call("FAL", "generate"), Call("IDEOGRAM", "generate"),
     Call("RECRAFT", "generate")}

\* the calls that create a timer and never hand it to cleanupController
LeavingCalls ==
    {Call("IDEOGRAM", "edit"),
     Call("STABILITY", "generate"), Call("STABILITY", "edit"),
     Call("OPENAI", "generate"), Call("OPENAI", "edit"),
     Call("GEMINI", "generate"), Call("GEMINI", "edit"),
     Call("REPLICATE", "generate")}

TimedCalls == CleaningCalls \cup LeavingCalls

\* exchanges one call can make, each under a timer of its own: the attempts
\* of the retry executor; for Replicate createPrediction, the status checks
\* and the download
ExchangeLimit(call) ==
    IF call = Call("REPLICATE", "generate") THEN MaxTimedChecks + 2
    ELSE IF call \in CleaningCalls THEN GenRetryBudget
    ELSE 1

\* pending timers an exchange leaves behind when it ends: none where the
\* finally block calls cleanupController, its own timer elsewhere
TimersLeft(call, live) == IF call \in CleaningCalls THEN 0 ELSE live

\* createTimeout of the first exchange of a call
TimedBegin(call) ==
    /\ kPc = "idle"
    /\ kCall' = call
    /\ kPc' = "exchange"
    /\ kN' = 1
    /\ kLive' = 1
    /\ kStale' = 0

\* the exchange under way ends (result, error or exception) and the call
\* goes on to a further exchange under a new timer
TimedNext ==
    /\ kPc = "exchange" /\ kN < ExchangeLimit(kCall)
    /\ kStale' = kStale + TimersLeft(kCall, kLive)
    /\ kN' = kN + 1
    /\ kLive' = 1
    /\ UNCHANGED <<kCall, kPc>>

\* the exchange under way ends and the call returns or throws
TimedEnd ==
    /\ kPc = "exchange"
    /\ kStale' = kStale + TimersLeft(kCall, kLive)
    /\ kLive' = 0
    /\ kPc' = "done"
    /\ UNCHANGED <<kCall, kN>>

\* a pending timer fires and aborts its controller
TimerFires ==
    /\ \/ kLive = 1 /\ kLive' = 0 /\ kStale' = kStale
       \/ kStale > 0 /\ kStale' = kStale - 1 /\ kLive' = kLive
    /\ UNCHANGED <<kCall, kPc, kN>>

InitTimer ==
    /\ IdlePoll /\ IdleRetry /\ IdleRate /\ IdleGen /\ IdleSel /\ IdleOrch /\ IdleConc
    /\ IdleHttp /\ IdleReg /\ IdleTerm /\ IdleEdit
    /\ kCall = Call("", "") /\ kPc = "idle" /\ kN = 0 /\ kLive = 0 /\ kStale = 0

NextTimer ==
    \/ /\ \E call \in TimedCalls : TimedBegin(call)
       /\ UNCHANGED <<pollVars, retryVars, rateVars, genVars, selVars, orchVars, concVars, httpVars, regVars, termVars, editVars>>
    \/ TimedNext /\ UNCHANGED <<pollVars, retryVars, rateVars, genVars, selVars, orchVars, concVars, httpVars, regVars, termVars, editVars>>
    \/ TimedEnd /\ UNCHANGED <<pollVars, retryVars, rateVars, genVars, selVars, orchVars, concVars, httpVars, regVars, termVars, editVars>>
    \/ TimerFires /\ UNCHANGED <<pollVars, retryVars, rateVars, genVars, selVars, orchVars, concVars, httpVars, regVars, termVars, editVars>>

SpecTimer == InitTimer /\ [][NextTimer]_vars

\* C32: the timer createTimeout starts for an exchange is cleared when the
\* exchange ends, however it ends: no timer of an ended exchange is pending,
\* and none is pending once the call has returned or thrown.
C32_TimerCleanup ==
    /\ kStale = 0
    /\ kPc = "done" => kLive = 0

(***************************************************************************)
(* The image.edit handler                                                  *)
(***************************************************************************)

\* providers that may be configured in the explored environments; MOCK
\* always is
EditProviders == {"MOCK", "OPENAI", "REPLICATE", "GEMINI", "BFL", "FAL"}

\* getCapabilities().supportsEdit of the adapters
supportsEdit(name) ==
    name \in {"MOCK", "OPENAI", "STABILITY", "GEMINI", "IDEOGRAM", "BFL", "CLIPDROP"}

\* Config.getConfiguredEditProviders: the configured providers that
\* support editing
getConfiguredEditProviders(configured) ==
    SelectSeq(getConfiguredProviders(configured), supportsEdit)

\* the base image: whether it can be read, and its width and height as sharp
\* reports them (0 for a missing value)
Image(readable, width, height) ==
    [readable |-> readable, width |-> width, height |-> height]

\* Math.abs(ratio - 1) > 0.05 with ratio = (width || 1) / (height || 1)
NonSquare(image) ==
    LET w == IF image.width = 0 THEN 1 ELSE image.width
        h == IF image.height = 0 THEN 1 ELSE image.height
        diff == IF w > h THEN w - h ELSE h - w
    IN 20 * diff > h

EditImages == {Image(TRUE, 1024, 1024), Image(TRUE, 1024, 1000),
               Image(TRUE, 1024, 768), Image(TRUE, 768, 1024),
               Image(TRUE, 0, 0), Image(FALSE, 0, 0)}

EditPrompts == {
    LogoAcmePrompt,
    \* "4k cat"
    <<"4", "k", " ", "c", "a", "t">>,
    \* "a red cat"
    <<"a", " ", "r", "e", "d", " ", "c", "a", "t">>}

\* input.provider: absent, auto, providers with and without editing, and a
\* name no provider has
EditProviderChoices == {"", "auto", "BFL", "OPENAI", "FAL", "REPLICATE", "DALLE"}

EditRequest(provider, prompt, image) ==
    [provider |-> provider, prompt |-> prompt, image |-> image]

AutoRequested(req) == req.provider \in {"", "auto"}

\* the provider the handler resolves before it looks at the capabilities
EditResolution(req, configured, envDefault, disableFallback) ==
    IF AutoRequested(req)
    THEN LET editCapableProviders == getConfiguredEditProviders(configured)
             selectedName == selectProvider(req.prompt, editCapableProviders, "")
         IN IF Len(editCapableProviders) = 0 THEN NotResolved
            ELSE IF selectedName # "" THEN Resolved(getProvider(selectedName))
            ELSE getProviderWithFallback("", req.prompt, configured,
                                         envDefault, disableFallback)
    ELSE getProviderWithFallback(req.provider, req.prompt, configured,
                                 envDefault, disableFallback)

\* the handler up to the aspect-ratio step, calling edit on whatever
\* provider was resolved
EditResolveUnchecked ==
    /\ ePc = "call"
    /\ LET r == EditResolution(eReq, eConfigured, eDefaultEnv, eDisable) IN
       IF ~r.ok \/ r.name = ""
       THEN ePc' = "failed" /\ eResolved' = "" /\ eProvider' = ""
       ELSE /\ eResolved' = r.name /\ eProvider' = r.name
            /\ ePc' = IF r.name = "BFL" /\ AutoRequested(eReq)
                      THEN "aspect" ELSE "invoke"
    /\ UNCHANGED <<eConfigured, eDefaultEnv, eDisable, eReq, eInvoked>>

\* the handler up to the aspect-ratio step: resolve the provider and refuse
\* one that does not support editing
EditResolve ==
    /\ ePc = "call"
    /\ LET r == EditResolution(eReq, eConfigured, eDefaultEnv, eDisable) IN
       IF ~r.ok \/ r.name = ""
       THEN ePc' = "failed" /\ eResolved' = "" /\ eProvider' = ""
       ELSE /\ eResolved' = r.name /\ eProvider' = r.name
            /\ ePc' = IF ~supportsEdit(r.name) THEN "failed"
                      ELSE IF r.name = "BFL" /\ AutoRequested(eReq)
                      THEN "aspect" ELSE "invoke"
    /\ UNCHANGED <<eConfigured, eDefaultEnv, eDisable, eReq, eInvoked>>

\* BFL was selected automatically: read the base image and, when it is not
\* square, take another edit provider if there is one
EditAspect ==
    /\ ePc = "aspect"
    /\ IF ~eReq.image.readable
       THEN ePc' = "failed" /\ eProvider' = eProvider
       ELSE /\ ePc' = "invoke"
            /\ LET alternatives ==
                       SelectSeq(getConfiguredEditProviders(eConfigured),
                                 LAMBDA name : name # "BFL")
                   altName == selectProvider(eReq.prompt, alternatives, "")
               IN eProvider' =
                      IF NonSquare(eReq.image) /\ Len(alternatives) > 0
                      THEN IF altName # "" THEN getProvider(altName)
                           ELSE getProvider(alternatives[1])
                      ELSE eProvider
    /\ UNCHANGED <<eConfigured, eDefaultEnv, eDisable, eReq, eResolved, eInvoked>>

\* provider.edit(input)
EditInvoke ==
    /\ ePc = "invoke"
    /\ eInvoked' = eProvider
    /\ ePc' = "done"
    /\ UNCHANGED <<eConfigured, eDefaultEnv, eDisable, eReq, eResolved, eProvider>>

InitEdit ==
    /\ IdlePoll /\ IdleRetry /\ IdleRate /\ IdleGen /\ IdleSel /\ IdleOrch /\ IdleConc
    /\ IdleHttp /\ IdleReg /\ IdleTerm /\ IdleTimer
    /\ eConfigured \in {set \in SUBSET EditProviders : "MOCK" \in set}
    /\ eDefaultEnv \in {"", "FAL"}
    /\ eDisable \in BOOLEAN
    /\ eReq \in {EditRequest(provider, prompt, image) :
                     provider \in EditProviderChoices, prompt \in EditPrompts,
                     image \in EditImages}
    /\ ePc = "call" /\ eResolved = "" /\ eProvider = "" /\ eInvoked = ""

NextEdit ==
    \/ EditResolve /\ UNCHANGED <<pollVars, retryVars, rateVars, genVars, selVars, orchVars, concVars, httpVars, regVars, termVars, timerVars>>
    \/ EditAspect /\ UNCHANGED <<pollVars, retryVars, rateVars, genVars, selVars, orchVars, concVars, httpVars, regVars, termVars, timerVars>>
    \/ EditInvoke /\ UNCHANGED <<pollVars, retryVars, rateVars, genVars, selVars, orchVars, concVars, httpVars, regVars, termVars, timerVars>>

SpecEdit == InitEdit /\ [][NextEdit]_vars

====
